---- MODULE Spec2Model ----
(***************************************************************************)
(* A model of the content-retrieval subsystem of faithup-discord-bot:      *)
(*   src/rate_limiter.py      RateLimiter, NonBlockingRateLimiter          *)
(*   src/youversion/auth.py   YouVersionAuthenticator                      *)
(*   src/youversion/client.py YouVersionClient                             *)
(*                                                                         *)
(* The program runs on one asyncio event loop.  A task runs without        *)
(* interruption from one suspension point to the next, so every action     *)
(* below is one await-free segment of a coroutine, or a part of one cut    *)
(* at a call boundary (which only adds interleavings).  Both time.time()   *)
(* and time.monotonic() read the clock `now`, in seconds; it advances      *)
(* between segments only.                                                  *)
(***************************************************************************)
EXTENDS Integers, Sequences, FiniteSets, TLC

\* ------------------------------------------------------------------ bounds
NumUsers == 3      \* tasks that call the limiter / the authenticator directly
MaxLimit == 2      \* max_calls of a stand-alone limiter is drawn from 1..MaxLimit
MaxPeriod == 2     \* its period is drawn from 1..MaxPeriod
MaxTicks == 3      \* how often the clock advances in one behaviour of a limiter
                   \* or an authenticator
ClientTicks == 2   \* how often it advances in one behaviour of a client
NumTokens == 4     \* distinct access tokens the token endpoint hands out
NumCallers == 2    \* tasks that call get_formatted_verse_of_the_day
MaxRefs == 2       \* member fetches one get_verse_texts call can fan out to
NumDays == 3       \* days 1..NumDays are asked for
CacheMaxSize == 2  \* self._cache_maxsize, scaled down from 100 (client.py:50)
ClientLimit == 3   \* max_calls of the client's limiter, scaled down from 30 (client.py:54)
MaxCalls == 4      \* get_formatted_verse_of_the_day calls in one behaviour of a client
LiveCalls == 4     \* acquire() calls in one behaviour of the concurrent workers
PairCalls == 3     \* and in one behaviour of a client with two concurrent callers
MaxEntries == 3    \* entries in one list of the envelope endpoint
EntryDays == 2     \* days an entry of such a list can be for (requests: 1..NumDays)
FetchUsers == 2    \* tasks calling get_verse_of_the_day() directly
FetchCalls == 3    \* direct get_verse_of_the_day() calls in one behaviour
MaxPieces == 4     \* pieces in a chapter content drawn piece by piece
MaxFragments == 4  \* fragments in a chapter content drawn fragment by fragment
ExtractCalls == 1   \* verse extractions in one behaviour
NumGuilds == 2      \* guilds the announcement commands are run in
MaxAnnouncements == 3  \* stored announcements in one behaviour of the cog

\* ------------------------------------------------------------------ tasks
\* <<0, i>>: a stand-alone task; <<c, 0>>: the task of caller c;
\* <<c, i>>: the i-th member task that caller c's asyncio.gather runs
NoProc == <<0, 0>>
Users == {<<0, i>> : i \in 1..NumUsers}
Callers == {<<c, 0>> : c \in 1..NumCallers}
Members == {<<c, i>> : c \in 1..NumCallers, i \in 1..MaxRefs}
Procs == Users \cup Callers \cup Members
IsUser(p) == p[1] = 0
IsCaller(p) == p[1] >= 1 /\ p[2] = 0
IsMember(p) == p[1] >= 1 /\ p[2] >= 1
Owner(p) == <<p[1], 0>>
Member(c, i) == <<c[1], i>>

VARIABLES
    now,            \* the clock read by time.monotonic() and time.time()
    ticks,          \* number of clock advances so far
    pc,             \* pc[p]: the suspension point task p is at
    ret,            \* what the last step returned, raised or sent: task, operation,
                    \* outcome, value, argument (NoRet when it did none of these)
    \* --- RateLimiter (rate_limiter.py:34-37)
    kind,           \* "blocking" (RateLimiter) or "nonblocking" (NonBlockingRateLimiter)
    max_calls,      \* self.max_calls
    period,         \* self.period
    calls,          \* self._calls, the deque of call timestamps
    lock_owner,     \* holder of self._lock, or the waiter it was handed to
    lock_waiters,   \* FIFO of tasks suspended in self._lock.acquire()
    lstate,         \* lstate[p]: "none", "queued", "granted" or "sleeping"
    wake,           \* wake[p]: the time asyncio.sleep(sleep_time) ends
    lnow,           \* lnow[p]: the local `now` of get_remaining_calls
    \* --- YouVersionAuthenticator (auth.py:38-42)
    credentials,    \* whether the authenticator exists, and its self.username and
                    \* self.password
    token,          \* self._access_token (0: None)
    expiry,         \* self._token_expiry (-1: None)
    user_id,        \* self._user_id (0: None)
    astate,         \* astate[p]: "posting" while p awaits the token POST
    \* --- YouVersionClient (client.py:48-50) and the locals of its coroutines
    cache,          \* self._votd_cache: entries [day, ts, data] in OrderedDict order
    reqday,         \* reqday[c]: `day` of get_formatted_verse_of_the_day
    votd,           \* votd[c]: `votd_data`, the envelope entry chosen
    ref,            \* ref[p]: `usfm_reference` of the get_verse_text p runs
    hdr,            \* hdr[p]: the bearer token in `headers` of get_verse_text
    mres,           \* mres[p]: what member task p settled with
    chapter_data,   \* chapter_data[c]: `chapter_data` of get_formatted_verse_of_the_day
    arrival,        \* arrival[c]: the members of c in the order they settled
                    \* (kept until the caller's call ends)
    \* --- a second RateLimiter (rate_limiter.py:34-37)
    second,         \* its max_calls, period, _calls, and the holder and waiters
                    \* of its _lock
    \* --- AnnouncementsCog (announcements_cog.py:24-28)
    announcements,  \* the stored "announcements" list: [id, guild_id, enabled]
    \* --- history (not program state)
    admitted,       \* timestamps recorded by acquire() calls of the stand-alone
                    \* tasks while no reset() ran
    resetUsed,      \* a reset() has run
    acqlog,         \* acqlog[p]: what the acquire() p is inside saw when called
    recency,        \* cached days, least recently inserted-or-hit first
    overwrote,      \* some store replaced an entry its day already had
    evicted,        \* the days popitem(last=False) removed, in order
    ncalls,         \* get_formatted_verse_of_the_day calls started so far
    fbcalls         \* fbcalls[c]: get_verse_text calls made after get_verse_texts failed

clockVars == <<now, ticks>>
limCfg == <<kind, max_calls, period>>
limVars == <<limCfg, calls, lock_owner, lock_waiters, lstate, wake, lnow>>
limHist == <<admitted, resetUsed, acqlog>>
authVars == <<credentials, token, expiry, user_id, astate>>
clientVars == <<cache, reqday, votd, ref, hdr, mres, chapter_data, arrival>>
clientHist == <<recency, overwrote, evicted, ncalls, fbcalls>>
otherVars == <<second, announcements>>
vars == <<clockVars, pc, ret, limVars, limHist, authVars, clientVars, clientHist,
          otherVars>>

NoRet == [proc |-> NoProc, op |-> "none", ok |-> TRUE, val |-> 0, arg |-> 0]
Ev(p, op, ok, val, arg) == [proc |-> p, op |-> op, ok |-> ok, val |-> val, arg |-> arg]
Last(s) == s[Len(s)]
RemoveAt(s, i) == SubSeq(s, 1, i - 1) \o SubSeq(s, i + 1, Len(s))
Without(s, x) == SelectSeq(s, LAMBDA y : y # x)

\* ------------------------------------------------------------------ upstream data

\* USFM references, split on "."
RefGen == <<"GEN", "1", "1">>
RefJhn == <<"JHN", "3", "16">>

NoEntry == [day |-> 0, usfm |-> <<>>, image_id |-> 0]
\* lists the envelope endpoint answers with under "votd"
EnvOne == << [day |-> 2, usfm |-> <<RefJhn>>, image_id |-> 102] >>
EnvTwo == << [day |-> 2, usfm |-> <<RefJhn>>, image_id |-> 102],
             [day |-> 1, usfm |-> <<RefGen, RefJhn>>, image_id |-> 101] >>
EnvNoRefs == << [day |-> 3, usfm |-> <<>>, image_id |-> 103] >>
Envelopes == {<<>>, EnvTwo, EnvNoRefs}
PairEnvelopes == {<<>>, EnvOne}

\* values of max_calls and period that RateLimiter.__init__ refuses
\* (test_init_invalid)
BadParams == {-1, 0}

\* what os.getenv gives for a credential: None ("missing"), the empty string
\* or a value
EnvValues == {"missing", "", "set"}
\* no authenticator has been constructed
NoAuth == [built |-> FALSE, username |-> "missing", password |-> "missing"]

\* JSON bodies the envelope endpoint answers with: an object without the key
\* "votd", or one whose "votd" lists up to MaxEntries entries; the entries of
\* one list differ in image_id and may repeat a day
NoBody == [has |-> FALSE, votd |-> <<>>]
VotdLists ==
    UNION {{[i \in 1..n |-> [day |-> ds[i], usfm |-> <<RefGen>>, image_id |-> 100 + i]] :
               ds \in [1..n -> 1..EntryDays]} : n \in 0..MaxEntries}
VotdBodies == {NoBody} \cup {[has |-> TRUE, votd |-> l] : l \in VotdLists}
\* HTTP status codes of a response
Statuses == {200, 201, 404, 500}
\* the text of a ValueError: its fixed part, the status code it was formatted
\* with (0: none) and the exception it was formatted with ("": none)
Msg(text, code, cause) == [text |-> text, code |-> code, cause |-> cause]

\* chapter markup the chapter endpoint answers with: which verses it holds
Markups == {"v1", "v1v16"}
VersesIn(m) == IF m = "v1v16" THEN {1, 16} ELSE IF m = "v1" THEN {1} ELSE {}

NoData == [by |-> NoProc, chapter |-> <<>>, markup |-> "none"]
NoRes == [st |-> "none", data |-> NoData]
ErrRes == [st |-> "err", data |-> NoData]

\* ------------------------------------------------------------------ pure parts of the client

\* get_verse_text (client.py:139-143): "JHN.10.11" becomes "JHN.10"
ChapterReference(r) == IF Len(r) >= 2 THEN <<r[1], r[2]>> ELSE r

\* int(parts[2]); -1 when int() raises ValueError
ParseInt(str) ==
    IF str = "1" THEN 1 ELSE IF str = "2" THEN 2 ELSE IF str = "3" THEN 3
    ELSE IF str = "16" THEN 16 ELSE -1

\* _extract_verse_number (client.py:295-301)
ExtractVerseNumber(r) ==
    IF Len(r) >= 3 /\ ParseInt(r[3]) # -1 THEN ParseInt(r[3]) ELSE 1

\* book_mapping.get(book_abbr, book_abbr) (client.py:378-410)
BookName(b) == IF b = "GEN" THEN "Genesis" ELSE IF b = "JHN" THEN "John" ELSE b

\* _usfm_to_human (client.py:404-413): "Genesis 1:1" as <<book, chapter, verse>>
UsfmToHuman(r) == IF Len(r) >= 3 THEN <<BookName(r[1]), r[2], r[3]>> ELSE r

\* _extract_verse_text (client.py:303-366): the text of verse n of the chapter
\* data, or found = FALSE where the code raises "Verse n not found"
ExtractVerseText(data, n) ==
    IF n \in VersesIn(data.markup)
    THEN [found |-> TRUE, text |-> <<data.chapter, n>>]
    ELSE [found |-> FALSE, text |-> <<>>]

\* (a bug SelectEntry could have: the last matching entry is chosen)
SelectEntryLastMatch(env, d) ==
    IF \E i \in DOMAIN env : env[i].day = d
    THEN env[CHOOSE i \in DOMAIN env :
                env[i].day = d /\ \A j \in (i + 1)..Len(env) : env[j].day # d]
    ELSE IF env # <<>> THEN env[1] ELSE NoEntry

\* get_verse_of_the_day (client.py:100-114): the entry whose day matches, else
\* the first entry, else NoEntry where the code raises "No verse of the day found"
SelectEntry(env, d) ==
    IF \E i \in DOMAIN env : env[i].day = d
    THEN env[CHOOSE i \in DOMAIN env :
                env[i].day = d /\ \A j \in 1..(i - 1) : env[j].day # d]
    ELSE IF env # <<>> THEN env[1] ELSE NoEntry

\* `votd_data = data.get("votd", [])` (client.py:97)
VotdList(body) == IF body.has THEN body.votd ELSE <<>>

\* (a bug VotdOutcome could have: only the 5xx statuses are failures)
VotdOutcomeServerErrorsOnly(s, body, d) ==
    IF s >= 500
    THEN [ok |-> FALSE, val |-> Msg("VOTD API request failed", s, "")]
    ELSE LET e == SelectEntry(VotdList(body), d) IN
         IF e = NoEntry
         THEN [ok |-> FALSE, val |-> Msg("No verse of the day found for day", d, "")]
         ELSE [ok |-> TRUE, val |-> e]

\* get_verse_of_the_day(d), client.py:91-114, once the response with status s
\* and JSON body `body` is there: the entry it returns or the ValueError it raises
VotdOutcome(s, body, d) ==
    IF s # 200
    THEN [ok |-> FALSE, val |-> Msg("VOTD API request failed", s, "")]
    ELSE LET e == SelectEntry(VotdList(body), d) IN
         IF e = NoEntry
         THEN [ok |-> FALSE, val |-> Msg("No verse of the day found for day", d, "")]
         ELSE [ok |-> TRUE, val |-> e]

\* the ValueError of get_verse_text for a response with status s
\* (client.py:166-168) or, s = 0, for httpx.RequestError (client.py:172-173)
TxtError(s) ==
    IF s = 0 THEN Msg("Bible chapter API request failed", 0, "RequestError")
    ELSE Msg("Bible chapter API request failed", s, "")

\* `except httpx.RequestError as e: raise ValueError(...)` (client.py:116-117)
VotdTransportOutcome ==
    [ok |-> FALSE, val |-> Msg("VOTD API request failed", 0, "RequestError")]

\* (a bug FormattedVerse could have: the record names the last reference)
FormattedVerseLastRef(entry, r, text) ==
    [day |-> entry.day, usfm |-> Last(entry.usfm),
     human_reference |-> UsfmToHuman(Last(entry.usfm)),
     verse_text |-> text, version_id |-> 1, image_id |-> entry.image_id]

\* the record built at client.py:267-274
FormattedVerse(entry, r, text) ==
    [day |-> entry.day, usfm |-> r, human_reference |-> UsfmToHuman(r),
     verse_text |-> text, version_id |-> 1, image_id |-> entry.image_id]

\* ------------------------------------------------------------------ the VOTD cache

CACHE_TTL == 86400

\* position of day d in the cache, 0 when absent (self._votd_cache.get(day))
CacheIndex(ch, d) ==
    IF \E i \in DOMAIN ch : ch[i].day = d
    THEN CHOOSE i \in DOMAIN ch : ch[i].day = d
    ELSE 0

CacheDays(ch) == {ch[i].day : i \in DOMAIN ch}

\* (a bug IsFresh could have: an entry exactly ttl old still counts as fresh)
IsFreshInclusive(e) == now - e.ts <= CACHE_TTL

\* `time.time() - timestamp < self._cache_ttl` (client.py:233)
IsFresh(e) == now - e.ts < CACHE_TTL

\* (a bug MoveToEnd could have: the entry stays where it is)
MoveToEndStays(ch, i) == ch

\* self._votd_cache.move_to_end(day)
MoveToEnd(ch, i) == Append(RemoveAt(ch, i), ch[i])

\* (a bug CacheStore could have: the size is checked with > instead of >=)
CacheStoreLate(ch, d, t, data) ==
    LET kept == IF Len(ch) > CacheMaxSize THEN Tail(ch) ELSE ch
        i == CacheIndex(kept, d)
        e == [day |-> d, ts |-> t, data |-> data]
    IN  IF i = 0 THEN Append(kept, e) ELSE [kept EXCEPT ![i] = e]

\* (a bug CacheStore could have: popitem() without last=False drops the newest)
CacheStoreDropNewest(ch, d, t, data) ==
    LET kept == IF Len(ch) >= CacheMaxSize THEN SubSeq(ch, 1, Len(ch) - 1) ELSE ch
        i == CacheIndex(kept, d)
        e == [day |-> d, ts |-> t, data |-> data]
    IN  IF i = 0 THEN Append(kept, e) ELSE [kept EXCEPT ![i] = e]

\* client.py:278-281: evict the first entry when full, then self._votd_cache[day] = ...
\* (assigning to a key the OrderedDict already has keeps the key's position)
CacheStore(ch, d, t, data) ==
    LET kept == IF Len(ch) >= CacheMaxSize THEN Tail(ch) ELSE ch
        i == CacheIndex(kept, d)
        e == [day |-> d, ts |-> t, data |-> data]
    IN  IF i = 0 THEN Append(kept, e) ELSE [kept EXCEPT ![i] = e]

\* ------------------------------------------------------------------ RateLimiter

\* (a bug InitError could have: zero passes the checks)
InitErrorAllowsZero(m, per) ==
    IF m < 0 THEN "max_calls must be positive"
    ELSE IF per < 0 THEN "period must be positive"
    ELSE ""

\* RateLimiter.__init__ (lines 29-32): the text of the ValueError it raises
\* for max_calls m and period per, "" when it raises none
InitError(m, per) ==
    IF m <= 0 THEN "max_calls must be positive"
    ELSE IF per <= 0 THEN "period must be positive"
    ELSE ""

\* (a bug Prune could have: a timestamp exactly one period old stays in the window)
RECURSIVE PruneExclusive(_, _)
PruneExclusive(cs, n) ==
    IF cs # <<>> /\ Head(cs) < n - period THEN PruneExclusive(Tail(cs), n) ELSE cs

\* `while self._calls and self._calls[0] <= now - self.period: popleft()`
RECURSIVE Prune(_, _)
Prune(cs, n) ==
    IF cs # <<>> /\ Head(cs) <= n - period THEN Prune(Tail(cs), n) ELSE cs

\* (a bug SleepTime could have: the wait ends one second early)
SleepTimeShort(cs, n) == Head(cs) + period - n - 1

\* `sleep_time = self._calls[0] + self.period - now`
SleepTime(cs, n) == Head(cs) + period - n

\* lines 53-58: re-read the clock, prune again, record the call
AcquireRecord(cs) ==
    LET n == now IN [st |-> "done", calls |-> Append(Prune(cs, n), n), wake |-> -1]

\* (a bug BlockingBody could have: the limit is checked with > instead of >=)
BlockingBodyOffByOne ==
    LET n == now
        cs == Prune(calls, n)
    IN  IF Len(cs) > max_calls
        THEN IF SleepTime(cs, n) > 0
             THEN [st |-> "sleeping", calls |-> cs, wake |-> n + SleepTime(cs, n)]
             ELSE AcquireRecord(cs)
        ELSE [st |-> "done", calls |-> Append(cs, n), wake |-> -1]

\* RateLimiter.acquire, from taking the lock to its first suspension or its return
BlockingBody ==
    LET n == now
        cs == Prune(calls, n)
    IN  IF Len(cs) >= max_calls
        THEN IF SleepTime(cs, n) > 0
             THEN [st |-> "sleeping", calls |-> cs, wake |-> n + SleepTime(cs, n)]
             ELSE AcquireRecord(cs)
        ELSE [st |-> "done", calls |-> Append(cs, n), wake |-> -1]

\* (a bug NonBlockingBody could have: the call is recorded before the limit is checked)
NonBlockingBodyRecords ==
    LET n == now
        cs == Prune(calls, n)
    IN  IF Len(cs) >= max_calls
        THEN [st |-> "raised", calls |-> Append(cs, n), wake |-> -1]
        ELSE [st |-> "done", calls |-> Append(cs, n), wake |-> -1]

\* NonBlockingRateLimiter.acquire, the body under the lock
NonBlockingBody ==
    LET n == now
        cs == Prune(calls, n)
    IN  IF Len(cs) >= max_calls
        THEN [st |-> "raised", calls |-> cs, wake |-> -1]
        ELSE [st |-> "done", calls |-> Append(cs, n), wake |-> -1]

AcquireBody == IF kind = "blocking" THEN BlockingBody ELSE NonBlockingBody

\* asyncio.Lock: free only when nobody holds it and nobody waits for it
LockFree == lock_owner = NoProc

\* (a bug Released could have: the lock is freed but no waiter is woken)
ReleasedLosesWaiter(waiters, st) ==
    [owner |-> NoProc, waiters |-> waiters, lstate |-> st]

\* leaving `async with self._lock`: the first waiter is woken and owns the lock next
Released(waiters, st) ==
    [owner |-> IF waiters = <<>> THEN NoProc ELSE Head(waiters),
     waiters |-> IF waiters = <<>> THEN <<>> ELSE Tail(waiters),
     lstate |-> IF waiters = <<>> THEN st
                ELSE [st EXCEPT ![Head(waiters)] = "granted"]]

NoLog == [phase |-> "none", coldest |-> -1, start |-> -1]

\* the oldest unexpired timestamp when the ledger holds max_calls of them, else -1
FullOldest(cs, n) ==
    IF Len(Prune(cs, n)) >= max_calls THEN Head(Prune(cs, n)) ELSE -1

\* ------------------------------------------------------------------ get_limiter_from_env

\* what os.getenv gives for {prefix}_MAX_CALLS or {prefix}_PERIOD: None
\* ("missing") or the string the variable is set to
EnvNumbers == {"missing", "2", "3", " 2 ", "0", "-1", "1.5", "nan", "invalid", ""}

\* int(s) for a string s (rate_limiter.py:120-123): ok = FALSE where it
\* raises ValueError; the literal may be signed and padded with whitespace
IntOf(s) ==
    IF s \in {"2", " 2 "} THEN [ok |-> TRUE, n |-> 2]
    ELSE IF s = "3" THEN [ok |-> TRUE, n |-> 3]
    ELSE IF s = "0" THEN [ok |-> TRUE, n |-> 0]
    ELSE IF s = "-1" THEN [ok |-> TRUE, n |-> -1]
    ELSE [ok |-> FALSE, n |-> 0]

\* float(s) for a string s other than "1.5" (rate_limiter.py:124-127): every
\* int literal is a float literal, and so is "nan", whose value is NaN
FloatOf(s) ==
    IF s = "nan" THEN [ok |-> TRUE, nan |-> TRUE, n |-> 0]
    ELSE [ok |-> IntOf(s).ok, nan |-> FALSE, n |-> IntOf(s).n]

\* the text of the ValueError get_limiter_from_env raises for parsed values i
\* and f, "" when it raises none (rate_limiter.py:120-128, 29-32): max_calls
\* is converted first; NaN <= 0 is false, so a NaN period passes line 31
FromEnvError(i, f) ==
    IF ~i.ok THEN "invalid literal for int()"
    ELSE IF ~f.ok THEN "could not convert string to float"
    ELSE IF i.n <= 0 THEN "max_calls must be positive"
    ELSE IF ~f.nan /\ f.n <= 0 THEN "period must be positive"
    ELSE ""


\* ------------------------------------------------------------------ verse extraction

\* chapter content as the sequence of its tags, whitespace runs and text
\* pieces: <span class="verse vN">, <span class="label">, <span class="content">,
\* </span>, " ", the digit strings "1" and "2", and the word "a"
VerseTags == {"<v1>", "<v2>"}
Tags == VerseTags \cup {"<label>", "<content>", "</span>"}
Pieces == Tags \cup {" ", "1", "2", "a"}
VerseOfTag(t) == IF t = "<v1>" THEN 1 ELSE IF t = "<v2>" THEN 2 ELSE 0
Digit(t) == IF t = "1" THEN 1 ELSE IF t = "2" THEN 2 ELSE -1

\* the first position from `from` on whose piece is in set, 0 when there is none
FirstIndex(s, from, set) ==
    LET I == {i \in from..Len(s) : s[i] \in set} IN
    IF I = {} THEN 0 ELSE CHOOSE i \in I : \A j \in I : i <= j

\* HTML_TAG_PATTERN.sub('', text) (client.py:19)
StripTags(s) == SelectSeq(s, LAMBDA t : t \notin Tags)

\* WHITESPACE_PATTERN.sub(' ', text) (client.py:20): a run becomes one space
RECURSIVE CollapseWhitespace(_)
CollapseWhitespace(s) ==
    IF Len(s) <= 1 THEN s
    ELSE IF s[1] = " " /\ s[2] = " " THEN CollapseWhitespace(Tail(s))
    ELSE <<s[1]>> \o CollapseWhitespace(Tail(s))

\* str.strip()
RECURSIVE Strip(_)
Strip(s) ==
    IF s = <<>> THEN s
    ELSE IF s[1] = " " THEN Strip(Tail(s))
    ELSE IF s[Len(s)] = " " THEN Strip(SubSeq(s, 1, Len(s) - 1))
    ELSE s

\* client.py:332-334, 344-346, 357-359: tags out, whitespace collapsed, stripped
Clean(s) == Strip(CollapseWhitespace(StripTags(s)))

\* ''.join(CONTENT_PATTERN.findall(text)) (client.py:18, 326-330): the inside
\* of every <span class="content">...</span>, each up to the first </span>
RECURSIVE JoinedContent(_, _)
JoinedContent(s, from) ==
    LET a == FirstIndex(s, from, {"<content>"})
        b == IF a = 0 THEN 0 ELSE FirstIndex(s, a + 1, {"</span>"})
    IN  IF b = 0 THEN <<>>
        ELSE SubSeq(s, a + 1, b - 1) \o JoinedContent(s, b + 1)

\* the first strategy (client.py:321-338): the first match of
\* VERSE_SPAN_PATTERN whose number is n runs from the verse tag to the next
\* verse tag or to the end; its content spans are joined and cleaned.
\* <<>> stands for no match and for an empty text: both go on to the next strategy
PrimaryText(content, n) ==
    LET i == FirstIndex(content, 1, {t \in VerseTags : VerseOfTag(t) = n})
        j == FirstIndex(content, i + 1, VerseTags)
        verse_content == Strip(SubSeq(content, i + 1, IF j = 0 THEN Len(content) ELSE j - 1))
    IN  IF i = 0 THEN <<>> ELSE Clean(JoinedContent(verse_content, 1))

\* int() of a run of digit pieces
RECURSIVE DigitsValue(_)
DigitsValue(s) ==
    IF s = <<>> THEN 0
    ELSE 10 * DigitsValue(SubSeq(s, 1, Len(s) - 1)) + Digit(s[Len(s)])

\* where LABEL_CONTENT_PATTERN (client.py:25-28) matches when tried at i: a
\* label tag, digits, </span>, then the first content tag and the first
\* </span> after it.  ok = FALSE when it does not match at i
LabelMatchAt(content, i) ==
    LET d == FirstIndex(content, i + 1, Pieces \ {"1", "2"})
        j == IF d = 0 THEN 0 ELSE FirstIndex(content, d + 1, {"<content>"})
        k == IF j = 0 THEN 0 ELSE FirstIndex(content, j + 1, {"</span>"})
    IN  IF content[i] = "<label>" /\ d > i + 1 /\ content[d] = "</span>" /\ k # 0
        THEN [ok |-> TRUE, number |-> DigitsValue(SubSeq(content, i + 1, d - 1)),
              text |-> SubSeq(content, j + 1, k - 1), end |-> k]
        ELSE [ok |-> FALSE, number |-> 0, text |-> <<>>, end |-> 0]

\* the second strategy (client.py:341-350): finditer goes through the matches
\* from left to right, none overlapping; the first whose number is n decides
RECURSIVE LabelText(_, _, _)
LabelText(content, from, n) ==
    LET I == {i \in from..Len(content) : LabelMatchAt(content, i).ok} IN
    IF I = {} THEN <<>>
    ELSE LET m == LabelMatchAt(content, CHOOSE i \in I : \A j \in I : i <= j) IN
         IF m.number = n THEN Clean(Strip(m.text))
         ELSE LabelText(content, m.end + 1, n)

\* the third strategy (client.py:353-363): a match of
\* VERSE_SPAN_FALLBACK_PATTERN runs from a verse tag to the first </span>
RECURSIVE RawSpanText(_, _, _)
RawSpanText(content, from, n) ==
    LET i == FirstIndex(content, from, VerseTags)
        k == IF i = 0 THEN 0 ELSE FirstIndex(content, i + 1, {"</span>"})
    IN  IF k = 0 THEN <<>>
        ELSE IF VerseOfTag(content[i]) = n
        THEN Clean(Strip(SubSeq(content, i + 1, k - 1)))
        ELSE RawSpanText(content, k + 1, n)

\* (a bug _extract_verse_text could have: the raw-span strategy is tried first)
ExtractFromContentRawFirst(content, n) ==
    LET p == PrimaryText(content, n)
        l == LabelText(content, 1, n)
        r == RawSpanText(content, 1, n)
    IN  IF r # <<>> THEN [found |-> TRUE, text |-> r]
        ELSE IF p # <<>> THEN [found |-> TRUE, text |-> p]
        ELSE IF l # <<>> THEN [found |-> TRUE, text |-> l]
        ELSE [found |-> FALSE, text |-> <<>>]

\* _extract_verse_text on the content of the chapter data (client.py:321-366):
\* found = FALSE where it raises "Verse n not found in chapter data"
ExtractFromContent(content, n) ==
    LET p == PrimaryText(content, n)
        l == LabelText(content, 1, n)
        r == RawSpanText(content, 1, n)
    IN  IF p # <<>> THEN [found |-> TRUE, text |-> p]
        ELSE IF l # <<>> THEN [found |-> TRUE, text |-> l]
        ELSE IF r # <<>> THEN [found |-> TRUE, text |-> r]
        ELSE [found |-> FALSE, text |-> <<>>]

\* chapter contents: every sequence of up to MaxPieces pieces, and every
\* sequence of up to MaxFragments fragments of well-formed markup
Fragments ==
    { <<"<v1>">>, <<"<v2>">>, <<"</span>">>, <<" ">>, <<"a">>,
      <<"<label>", "1", "</span>">>, <<"<label>", "2", "</span>">>,
      <<"<content>", "a", "</span>">>, <<"<content>", " ", "</span>">> }
RECURSIVE Flatten(_)
Flatten(ss) == IF ss = <<>> THEN <<>> ELSE Head(ss) \o Flatten(Tail(ss))
Contents ==
    UNION {[1..k -> Pieces] : k \in 0..MaxPieces}
    \cup {Flatten(fs) : fs \in UNION {[1..k -> Fragments] : k \in 0..MaxFragments}}

\* ------------------------------------------------------------------ returns into the client

\* get_formatted_verse_of_the_day of caller c returns or raises: its locals die
CallEnds(c, ev) ==
    /\ pc' = [pc EXCEPT ![c] = "idle"]
    /\ ret' = ev
    /\ reqday' = [reqday EXCEPT ![c] = 0]
    /\ votd' = [votd EXCEPT ![c] = NoEntry]
    /\ ref' = [ref EXCEPT ![c] = <<>>]
    /\ hdr' = [hdr EXCEPT ![c] = 0]
    /\ chapter_data' = [chapter_data EXCEPT ![c] = NoData]
    /\ arrival' = [arrival EXCEPT ![c] = <<>>]
    /\ fbcalls' = [fbcalls EXCEPT ![c] = 0]
    /\ UNCHANGED mres

\* it raises, or lets through, the ValueError err: nothing is stored
CallFails(c, err) ==
    /\ CallEnds(c, Ev(c, "fvotd", FALSE, err, reqday[c]))
    /\ UNCHANGED <<cache, recency, overwrote, evicted, ncalls>>

\* member task p of an asyncio.gather finishes with result or exception res
MemberSettles(p, res, ev) ==
    /\ pc' = [pc EXCEPT ![p] = "settled"]
    /\ ret' = ev
    /\ mres' = [mres EXCEPT ![p] = res]
    /\ arrival' = [arrival EXCEPT ![Owner(p)] = Append(@, p[2])]
    /\ hdr' = [hdr EXCEPT ![p] = 0]
    /\ UNCHANGED <<cache, reqday, votd, ref, chapter_data, clientHist>>

\* get_verse_text called by task p itself returns or raises: its locals die
TextEnds(p, ev) ==
    /\ pc' = [pc EXCEPT ![p] = "idle"]
    /\ ret' = ev
    /\ ref' = [ref EXCEPT ![p] = <<>>]
    /\ hdr' = [hdr EXCEPT ![p] = 0]
    /\ UNCHANGED <<cache, reqday, votd, mres, chapter_data, arrival, clientHist>>

\* (a bug the fallback could have: a failed sequential fetch is tried again)
TxtFailsRetries(p, ev) ==
    IF IsMember(p) THEN MemberSettles(p, ErrRes, ev)
    ELSE IF IsUser(p) THEN TextEnds(p, ev)
    ELSE /\ pc' = [pc EXCEPT ![p] = "txt_auth"]
         /\ ret' = ev
         /\ hdr' = [hdr EXCEPT ![p] = 0]
         /\ fbcalls' = [fbcalls EXCEPT ![p] = @ + 1]
         /\ UNCHANGED <<cache, reqday, votd, ref, mres, chapter_data, arrival,
                        recency, overwrote, evicted, ncalls>>

\* get_verse_text run by p raises ValueError: in a member task the gather
\* keeps it (return_exceptions=True); in the fallback of client.py:261 it
\* leaves get_formatted_verse_of_the_day
TxtFails(p, ev) ==
    IF IsMember(p) THEN MemberSettles(p, ErrRes, ev)
    ELSE IF IsUser(p) THEN TextEnds(p, ev)
    ELSE CallFails(p, ev.val)

\* get_verse_text run by p returns response.json() (client.py:170)
TxtReturns(p, data) ==
    IF IsMember(p)
    THEN MemberSettles(p, [st |-> "ok", data |-> data], NoRet)
    ELSE IF IsUser(p)
    THEN TextEnds(p, Ev(p, "text", TRUE, data, [ref |-> ref[p], status |-> 200]))
    ELSE /\ pc' = [pc EXCEPT ![p] = "extract"]
         /\ ret' = NoRet
         /\ chapter_data' = [chapter_data EXCEPT ![p] = data]
         /\ hdr' = [hdr EXCEPT ![p] = 0]
         /\ UNCHANGED <<cache, reqday, votd, ref, mres, arrival, clientHist>>

\* p called get_access_token itself, not through get_verse_text
StandAlone(p) == pc[p] \in {"idle", "tok_call"}

\* get_access_token called by p returns t: a stand-alone task is done; in
\* get_verse_text, get_auth_headers puts t into the headers (auth.py:158-162)
TokenReturns(p, t, ev) ==
    /\ ret' = ev
    /\ IF StandAlone(p)
       THEN /\ pc' = [pc EXCEPT ![p] = "idle"]
            /\ hdr' = hdr
       ELSE /\ pc' = [pc EXCEPT ![p] = "txt_acquire"]
            /\ hdr' = [hdr EXCEPT ![p] = t]
    /\ UNCHANGED <<cache, reqday, votd, ref, mres, chapter_data, arrival, clientHist>>

\* get_access_token called by p raises ValueError
TokenRaises(p, ev) ==
    IF StandAlone(p)
    THEN /\ pc' = [pc EXCEPT ![p] = "idle"]
         /\ ret' = ev
         /\ UNCHANGED <<clientVars, clientHist>>
    ELSE TxtFails(p, ev)

\* where a task stands while it is suspended inside acquire(), and where it
\* continues when acquire() returns (the request that follows it is then in
\* flight) or raises RateLimitExceeded
SuspPc(v) == IF v = "idle" THEN "lim_acquire" ELSE v
DonePc(v) ==
    IF v \in {"idle", "lim_acquire"} THEN "idle"
    ELSE IF v = "env_acquire" THEN "env_get" ELSE "txt_get"
RaisedPc(v) == IF v \in {"idle", "lim_acquire"} THEN "idle" ELSE "raised"

\* ------------------------------------------------------------------ RateLimiter actions

\* task p runs RateLimiter(m, per) or NonBlockingRateLimiter(m, per) while no
\* limiter exists (lines 29-37): a ValueError leaves it that way
Construct(p, k, m, per) ==
    /\ IsUser(p) /\ pc[p] = "idle"
    /\ kind = "none"
    /\ LET err == InitError(m, per) IN
       /\ ret' = Ev(p, "init", err = "", err, [kind |-> k, max_calls |-> m, period |-> per])
       /\ IF err # ""
          THEN UNCHANGED <<limCfg, calls, lock_owner, lock_waiters>>
          ELSE /\ kind' = k
               /\ max_calls' = m
               /\ period' = per
               /\ calls' = <<>>
               /\ lock_owner' = NoProc
               /\ lock_waiters' = <<>>
    /\ UNCHANGED <<clockVars, otherVars, pc, lstate, wake, lnow, limHist, authVars, clientVars, clientHist>>

\* task p runs get_limiter_from_env(prefix, dm, dp) while no limiter exists,
\* with {prefix}_MAX_CALLS = mc and {prefix}_PERIOD = pe in the environment
\* (rate_limiter.py:118-128).  os.getenv gives the default itself for a
\* variable that is not set.  A NaN period is held as 0 in `period`: the
\* limiter built here is not run
GetLimiterFromEnv(p, mc, pe, dm, dp) ==
    /\ IsUser(p) /\ pc[p] = "idle"
    /\ kind = "none"
    /\ LET i == IF mc = "missing" THEN [ok |-> TRUE, n |-> dm] ELSE IntOf(mc)
           f == IF pe = "missing" THEN [ok |-> TRUE, nan |-> FALSE, n |-> dp] ELSE FloatOf(pe)
           err == FromEnvError(i, f)
       IN
       /\ ret' = Ev(p, "from_env", err = "",
                    [error |-> err, max_calls |-> IF err = "" THEN i.n ELSE 0,
                     period |-> IF err = "" THEN f.n ELSE 0, nan |-> err = "" /\ f.nan],
                    [max_calls |-> mc, period |-> pe,
                     default_max_calls |-> dm, default_period |-> dp])
       /\ IF err # ""
          THEN UNCHANGED <<limCfg, calls, lock_owner, lock_waiters>>
          ELSE /\ kind' = "blocking"
               /\ max_calls' = i.n
               /\ period' = f.n
               /\ calls' = <<>>
               /\ lock_owner' = NoProc
               /\ lock_waiters' = <<>>
    /\ UNCHANGED <<clockVars, otherVars, pc, lstate, wake, lnow, limHist, authVars, clientVars, clientHist>>

\* the effect of outcome r of the body of acquire() run by p, which holds the lock
AcquireApply(p, r, log) ==
    /\ calls' = r.calls
    /\ IF r.st = "sleeping"
       THEN /\ lock_owner' = p
            /\ lock_waiters' = lock_waiters
            /\ lstate' = [lstate EXCEPT ![p] = "sleeping"]
            /\ wake' = [wake EXCEPT ![p] = r.wake]
            /\ pc' = [pc EXCEPT ![p] = SuspPc(pc[p])]
            /\ ret' = NoRet
            /\ admitted' = admitted
            /\ acqlog' = [acqlog EXCEPT ![p] = log]
       ELSE LET rel == Released(lock_waiters, [lstate EXCEPT ![p] = "none"]) IN
            /\ lock_owner' = rel.owner
            /\ lock_waiters' = rel.waiters
            /\ lstate' = rel.lstate
            /\ wake' = [wake EXCEPT ![p] = -1]
            /\ pc' = [pc EXCEPT ![p] = IF r.st = "done" THEN DonePc(pc[p])
                                       ELSE RaisedPc(pc[p])]
            /\ ret' = Ev(p, "acquire", r.st = "done",
                         IF lstate[p] = "sleeping" THEN 1 ELSE 0, 0)
            /\ admitted' = IF r.st = "done" /\ ~resetUsed /\ IsUser(p)
                           THEN Append(admitted, Last(r.calls)) ELSE admitted
            /\ acqlog' = [acqlog EXCEPT ![p] = NoLog]
    /\ UNCHANGED <<clockVars, otherVars, limCfg, lnow, resetUsed, authVars, clientVars, clientHist>>

\* p joins the FIFO of self._lock
LockQueue(p, at) ==
    /\ lock_waiters' = Append(lock_waiters, p)
    /\ lstate' = [lstate EXCEPT ![p] = "queued"]
    /\ pc' = [pc EXCEPT ![p] = at]
    /\ ret' = NoRet
    /\ UNCHANGED <<clockVars, otherVars, limCfg, calls, lock_owner, wake, admitted, resetUsed,
                   authVars, clientVars, clientHist>>

\* the body of acquire() starts (line 42)
BodyLog(log) == [log EXCEPT !.phase = "running", !.start = now]

\* a task calls acquire(): lines 41-58 up to the first suspension
AcquireEnter(p) ==
    /\ \/ IsUser(p) /\ pc[p] = "idle"
       \/ pc[p] \in {"env_acquire", "txt_acquire"}
    /\ lstate[p] = "none"
    /\ LET log == [NoLog EXCEPT !.phase = "queued", !.coldest = FullOldest(calls, now)] IN
       IF LockFree
       THEN AcquireApply(p, AcquireBody, BodyLog(log))
       ELSE /\ LockQueue(p, SuspPc(pc[p]))
            /\ acqlog' = [acqlog EXCEPT ![p] = log]
            /\ lnow' = lnow

\* the lock was handed to p, which waited for it inside acquire()
AcquireGranted(p) ==
    /\ pc[p] \in {"lim_acquire", "env_acquire", "txt_acquire"}
    /\ lstate[p] = "granted"
    /\ lock_owner = p
    /\ AcquireApply(p, AcquireBody, BodyLog(acqlog[p]))

\* asyncio.sleep(sleep_time) is over: lines 52-58
AcquireWake(p) ==
    /\ lstate[p] = "sleeping"
    /\ now >= wake[p]
    /\ AcquireApply(p, AcquireRecord(calls), acqlog[p])

\* (a bug reset() could have: the newest timestamp survives the reset)
ResetApplyKeepsNewest(p) ==
    LET rel == Released(lock_waiters, [lstate EXCEPT ![p] = "none"]) IN
    /\ calls' = IF calls = <<>> THEN <<>> ELSE <<Last(calls)>>
    /\ lock_owner' = rel.owner
    /\ lock_waiters' = rel.waiters
    /\ lstate' = rel.lstate
    /\ pc' = [pc EXCEPT ![p] = "idle"]
    /\ ret' = Ev(p, "reset", TRUE, Len(calls), 0)
    /\ resetUsed' = TRUE
    /\ admitted' = <<>>
    /\ UNCHANGED <<clockVars, otherVars, limCfg, wake, lnow, acqlog, authVars, clientVars, clientHist>>

\* reset() body under the lock (line 63); the event's val is the number of
\* timestamps the ledger held
ResetApply(p) ==
    LET rel == Released(lock_waiters, [lstate EXCEPT ![p] = "none"]) IN
    /\ calls' = <<>>
    /\ lock_owner' = rel.owner
    /\ lock_waiters' = rel.waiters
    /\ lstate' = rel.lstate
    /\ pc' = [pc EXCEPT ![p] = "idle"]
    /\ ret' = Ev(p, "reset", TRUE, Len(calls), 0)
    /\ resetUsed' = TRUE
    /\ admitted' = <<>>
    /\ UNCHANGED <<clockVars, otherVars, limCfg, wake, lnow, acqlog, authVars, clientVars, clientHist>>

\* (a bug reset() could have: it clears the ledger without taking the lock)
ResetEnterIgnoresLock(p) ==
    /\ IsUser(p) /\ pc[p] = "idle"
    /\ IF LockFree
       THEN ResetApply(p)
       ELSE /\ calls' = <<>>
            /\ ret' = Ev(p, "reset", TRUE, Len(calls), 0)
            /\ resetUsed' = TRUE
            /\ admitted' = <<>>
            /\ UNCHANGED <<clockVars, otherVars, pc, limCfg, lock_owner, lock_waiters, lstate,
                           wake, lnow, acqlog, authVars, clientVars, clientHist>>

\* a task calls reset()
ResetEnter(p) ==
    /\ IsUser(p) /\ pc[p] = "idle"
    /\ IF LockFree
       THEN ResetApply(p)
       ELSE LockQueue(p, "lim_reset") /\ UNCHANGED <<lnow, acqlog>>

ResetGranted(p) ==
    /\ pc[p] = "lim_reset"
    /\ lstate[p] = "granted"
    /\ lock_owner = p
    /\ ResetApply(p)

\* (a bug get_remaining_calls could have: it records the query as a call)
RemainingApplyRecords(p, n) ==
    LET rel == Released(lock_waiters, [lstate EXCEPT ![p] = "none"])
        cs == Prune(calls, n)
    IN
    /\ calls' = Append(cs, n)
    /\ lock_owner' = rel.owner
    /\ lock_waiters' = rel.waiters
    /\ lstate' = rel.lstate
    /\ pc' = [pc EXCEPT ![p] = "idle"]
    /\ ret' = Ev(p, "remaining", TRUE, max_calls - Len(cs), Len(calls) - Len(cs))
    /\ lnow' = [lnow EXCEPT ![p] = -1]
    /\ UNCHANGED <<clockVars, otherVars, limCfg, wake, limHist, authVars, clientVars, clientHist>>

\* get_remaining_calls() body under the lock (lines 69-72); n is the `now` of
\* line 67.  The event carries the number of timestamps the loop popped
RemainingApply(p, n) ==
    LET rel == Released(lock_waiters, [lstate EXCEPT ![p] = "none"])
        cs == Prune(calls, n)
    IN
    /\ calls' = cs
    /\ lock_owner' = rel.owner
    /\ lock_waiters' = rel.waiters
    /\ lstate' = rel.lstate
    /\ pc' = [pc EXCEPT ![p] = "idle"]
    /\ ret' = Ev(p, "remaining", TRUE, max_calls - Len(cs), Len(calls) - Len(cs))
    /\ lnow' = [lnow EXCEPT ![p] = -1]
    /\ UNCHANGED <<clockVars, otherVars, limCfg, wake, limHist, authVars, clientVars, clientHist>>

\* a task calls get_remaining_calls(): the clock is read before the lock is taken
RemainingEnter(p) ==
    /\ IsUser(p) /\ pc[p] = "idle"
    /\ IF LockFree
       THEN RemainingApply(p, now)
       ELSE /\ LockQueue(p, "lim_remaining")
            /\ lnow' = [lnow EXCEPT ![p] = now]
            /\ acqlog' = acqlog

RemainingGranted(p) ==
    /\ pc[p] = "lim_remaining"
    /\ lstate[p] = "granted"
    /\ lock_owner = p
    /\ RemainingApply(p, lnow[p])

\* ------------------------------------------------------------------ Authenticator

TOKEN_BUFFER == 60
DEFAULT_EXPIRES_IN == 3600

Tokens == 1..NumTokens
\* expires_in of a token response; -1: the server omitted the field
ExpiresIn == {-1, 30, 120}

\* (a bug IsTokenValid could have: the 60-second buffer is left out)
IsTokenValidNoBuffer ==
    IF token = 0 \/ expiry \in {-1, 0} THEN FALSE ELSE now < expiry

\* _is_token_valid (auth.py:70-74)
IsTokenValid ==
    IF token = 0 \/ expiry \in {-1, 0} THEN FALSE ELSE now < expiry - TOKEN_BUFFER

\* (a bug _authenticate could have: the server's expires_in is ignored)
ExpiresOrDefaultIgnoresServer(e) == DEFAULT_EXPIRES_IN

\* `token_data.get("expires_in", 3600)`
ExpiresOrDefault(e) == IF e = -1 THEN DEFAULT_EXPIRES_IN ELSE e

\* what _extract_user_info (auth.py:126-150) finds in access token t:
\* "identity": three segments, the middle one decoding to an object with a
\* user_id or a sub; "segments": not three segments; "undecodable": a payload
\* that b64decode or json.loads rejects; "anonymous": a payload object with
\* neither field
TokenShape(t) ==
    CASE t % 4 = 1 -> "identity"
      [] t % 4 = 2 -> "segments"
      [] t % 4 = 3 -> "undecodable"
      [] OTHER -> "anonymous"

\* _extract_user_info: the identity in token t is user 70 + t.  The early
\* return of line 134 and the `except Exception: pass` of line 148 leave
\* self._user_id as it was; a payload without identity assigns None (line 144)
ExtractUserInfo(t, uid) ==
    CASE TokenShape(t) = "identity" -> 70 + t
      [] TokenShape(t) = "anonymous" -> 0
      [] OTHER -> uid

\* (a bug CredentialsError could have: only the username is checked)
CredentialsErrorUsernameOnly(u, pw) ==
    IF u \in {"missing", ""} THEN "credentials must be set" ELSE ""

\* YouVersionAuthenticator.__init__ (auth.py:44-48), `not self.username or
\* not self.password`: the ValueError raised, "" when none is
CredentialsError(u, pw) ==
    IF u \in {"missing", ""} \/ pw \in {"missing", ""}
    THEN "credentials must be set" ELSE ""

\* task p runs YouVersionAuthenticator() while none exists, os.getenv giving
\* u and pw (auth.py:36-48)
ConstructAuth(p, u, pw) ==
    /\ IsUser(p) /\ pc[p] = "idle"
    /\ ~credentials.built
    /\ LET err == CredentialsError(u, pw) IN
       /\ ret' = Ev(p, "auth_init", err = "", err, [username |-> u, password |-> pw])
       /\ IF err # ""
          THEN UNCHANGED <<credentials, token, expiry, user_id>>
          ELSE /\ credentials' = [built |-> TRUE, username |-> u, password |-> pw]
               /\ token' = 0
               /\ expiry' = -1
               /\ user_id' = 0
    /\ UNCHANGED <<clockVars, otherVars, pc, limVars, limHist, astate, clientVars, clientHist>>

\* task p runs YouVersionClient() (client.py:44-55): the authenticator it
\* would own is constructed first and its ValueError leaves __init__; with
\* credentials set, line 47 calls the AsyncClient object that
\* async_http_client.py:157 binds to get_async_client, which raises TypeError.
\* Either way no client and no authenticator remain.
ConstructClient(p, u, pw) ==
    /\ IsUser(p) /\ pc[p] = "idle"
    /\ LET err == CredentialsError(u, pw) IN
       ret' = Ev(p, "client_init", FALSE, IF err # "" THEN err ELSE "TypeError",
                 [username |-> u, password |-> pw])
    /\ UNCHANGED <<clockVars, otherVars, pc, limVars, limHist, authVars, clientVars, clientHist>>

\* the form data of the token POST (auth.py:84-85)
PostData == [username |-> credentials.username, password |-> credentials.password]

\* get_access_token (auth.py:59-62) up to its return or the POST of _authenticate
TokenEnter(p) ==
    /\ \/ IsUser(p) /\ pc[p] = "idle"
       \/ pc[p] = "txt_auth"
    /\ astate[p] = "none"
    /\ IF IsTokenValid
       THEN /\ TokenReturns(p, token, Ev(p, "token_cached", TRUE, token, 0))
            /\ astate' = astate
       ELSE /\ pc' = [pc EXCEPT ![p] = IF pc[p] = "idle" THEN "tok_call" ELSE pc[p]]
            /\ ret' = Ev(p, "token_post", TRUE, 0, PostData)
            /\ astate' = [astate EXCEPT ![p] = "posting"]
            /\ UNCHANGED <<clientVars, clientHist>>
    /\ UNCHANGED <<clockVars, otherVars, limVars, limHist, credentials, token, expiry, user_id>>

\* (a bug _extract_user_info could have: a token it cannot decode makes the
\* refresh fail, after the token was stored)
TokenGrantedPropagates(p, t, e) ==
    /\ astate[p] = "posting"
    /\ token' = t
    /\ expiry' = now + ExpiresOrDefault(e)
    /\ user_id' = ExtractUserInfo(t, user_id)
    /\ astate' = [astate EXCEPT ![p] = "none"]
    /\ IF TokenShape(t) \in {"segments", "undecodable"}
       THEN TokenRaises(p, Ev(p, "token_error", FALSE, Msg("Invalid token", 0, ""), 200))
       ELSE TokenReturns(p, token', Ev(p, "token_fresh", TRUE, token',
                                       [access_token |-> t, expires_in |-> e]))
    /\ UNCHANGED <<clockVars, otherVars, limVars, limHist, credentials>>

\* the token endpoint answered 200 with access_token t and expires_in e
\* (auth.py:105-115)
TokenGranted(p, t, e) ==
    /\ astate[p] = "posting"
    /\ token' = t
    /\ expiry' = now + ExpiresOrDefault(e)
    /\ user_id' = ExtractUserInfo(t, user_id)
    /\ astate' = [astate EXCEPT ![p] = "none"]
    /\ TokenReturns(p, token', Ev(p, "token_fresh", TRUE, token',
                                  [access_token |-> t, expires_in |-> e]))
    /\ UNCHANGED <<clockVars, otherVars, limVars, limHist, credentials>>

\* the ValueError of _authenticate for a response with status s
\* (auth.py:99-103) or, s = 0, for httpx.RequestError (auth.py:117-118)
AuthError(s) ==
    IF s = 0 THEN Msg("Authentication request failed", 0, "RequestError")
    ELSE Msg("Authentication failed", s, "")

\* (a bug _authenticate could have: a failed token request is sent again)
TokenRefusedRetries(p, s) ==
    /\ astate[p] = "posting"
    /\ s # 200
    /\ ret' = Ev(p, "token_post", TRUE, 0, PostData)
    /\ UNCHANGED <<clockVars, otherVars, pc, limVars, limHist, authVars, clientVars, clientHist>>

\* the token request failed: with a status s other than 200 (auth.py:99-103),
\* or in transport, s = 0 (auth.py:117-118); both raise ValueError
TokenRefused(p, s) ==
    /\ astate[p] = "posting"
    /\ s # 200
    /\ astate' = [astate EXCEPT ![p] = "none"]
    /\ TokenRaises(p, Ev(p, "token_error", FALSE, AuthError(s), s))
    /\ UNCHANGED <<clockVars, otherVars, limVars, limHist, credentials, token, expiry, user_id>>

\* ------------------------------------------------------------------ ContentClient

\* get_formatted_verse_of_the_day(d), client.py:228-240: the cache check
StartFormatted(c, d) ==
    /\ IsCaller(c) /\ pc[c] = "idle"
    /\ ncalls < MaxCalls
    /\ ncalls' = ncalls + 1
    /\ LET i == CacheIndex(cache, d) IN
       IF i # 0 /\ IsFresh(cache[i])
       THEN /\ cache' = MoveToEnd(cache, i)
            /\ ret' = Ev(c, "fvotd_hit", TRUE, cache[i].data, d)
            /\ recency' = IF overwrote THEN <<>> ELSE Append(Without(recency, d), d)
            /\ UNCHANGED <<pc, reqday>>
       ELSE /\ cache' = IF i # 0 THEN RemoveAt(cache, i) ELSE cache
            /\ ret' = Ev(c, "fvotd_miss", TRUE, IF i # 0 THEN 1 ELSE 0, d)
            /\ recency' = Without(recency, d)
            /\ pc' = [pc EXCEPT ![c] = "env_acquire"]
            /\ reqday' = [reqday EXCEPT ![c] = d]
    /\ UNCHANGED <<clockVars, otherVars, limVars, limHist, authVars, votd, ref, hdr, mres,
                   chapter_data, arrival, overwrote, evicted, fbcalls>>

\* get_verse_of_the_day, client.py:91-114: the envelope endpoint answered 200
\* with the list env; then client.py:246-255 up to the asyncio.gather
EnvResponse(c, env) ==
    /\ pc[c] = "env_get"
    /\ LET e == SelectEntry(env, reqday[c])
           n == Len(e.usfm)
           mine == {Member(c, i) : i \in 1..n}
       IN  IF e = NoEntry
           THEN CallFails(c, Msg("No verse of the day found for day", reqday[c], ""))
           ELSE IF e.usfm = <<>>
           THEN CallFails(c, Msg("No USFM reference found in VOTD data", 0, ""))
           ELSE /\ votd' = [votd EXCEPT ![c] = e]
                /\ pc' = [q \in Procs |-> IF q = c THEN "gather"
                                          ELSE IF q \in mine THEN "txt_auth" ELSE pc[q]]
                /\ ref' = [q \in Procs |-> IF q \in mine THEN e.usfm[q[2]] ELSE ref[q]]
                /\ mres' = [q \in Procs |-> IF q \in mine THEN NoRes ELSE mres[q]]
                /\ arrival' = [arrival EXCEPT ![c] = <<>>]
                /\ ret' = NoRet
                /\ UNCHANGED <<cache, reqday, hdr, chapter_data, clientHist>>
    /\ UNCHANGED <<clockVars, otherVars, limVars, limHist, authVars>>

\* the envelope request failed: a status other than 200 (client.py:91-94) or
\* httpx.RequestError (client.py:116-117)
EnvRefused(c) ==
    /\ pc[c] = "env_get"
    /\ \E out \in {VotdOutcome(500, NoBody, reqday[c]), VotdTransportOutcome} :
          CallFails(c, out.val)
    /\ UNCHANGED <<clockVars, otherVars, limVars, limHist, authVars>>

\* (a bug get_verse_of_the_day could have: the stored token goes into its headers)
VotdCallAttachesToken(p, d) ==
    /\ IsUser(p) /\ pc[p] = "idle"
    /\ ncalls < FetchCalls
    /\ ncalls' = ncalls + 1
    /\ pc' = [pc EXCEPT ![p] = "env_acquire"]
    /\ reqday' = [reqday EXCEPT ![p] = d]
    /\ ret' = NoRet
    /\ hdr' = [hdr EXCEPT ![p] = token]
    /\ UNCHANGED <<clockVars, otherVars, limVars, limHist, authVars, cache, votd, ref, mres,
                   chapter_data, arrival, recency, overwrote, evicted, fbcalls>>

\* a task calls get_verse_of_the_day(d) itself (client.py:70-84): no token is
\* asked for, the next thing it does is acquire()
VotdCall(p, d) ==
    /\ IsUser(p) /\ pc[p] = "idle"
    /\ ncalls < FetchCalls
    /\ ncalls' = ncalls + 1
    /\ pc' = [pc EXCEPT ![p] = "env_acquire"]
    /\ reqday' = [reqday EXCEPT ![p] = d]
    /\ ret' = NoRet
    /\ UNCHANGED <<clockVars, otherVars, limVars, limHist, authVars, cache, votd, ref, hdr, mres,
                   chapter_data, arrival, recency, overwrote, evicted, fbcalls>>

\* get_verse_of_the_day of p returns or raises; the event keeps the day asked
\* for and the response that was received
VotdEnds(p, out, s, body) ==
    /\ pc' = [pc EXCEPT ![p] = "idle"]
    /\ reqday' = [reqday EXCEPT ![p] = 0]
    /\ ret' = Ev(p, "votd", out.ok, out.val, [day |-> reqday[p], status |-> s, body |-> body])
    /\ UNCHANGED <<clockVars, otherVars, limVars, limHist, authVars, cache, votd, ref, hdr, mres,
                   chapter_data, arrival, clientHist>>

\* the envelope endpoint answered the request of p with status s and body
VotdResponse(p, s, body) ==
    /\ IsUser(p) /\ pc[p] = "env_get"
    /\ VotdEnds(p, VotdOutcome(s, body, reqday[p]), s, body)

\* the request of p failed in transport: httpx.RequestError
VotdTransportError(p) ==
    /\ IsUser(p) /\ pc[p] = "env_get"
    /\ VotdEnds(p, VotdTransportOutcome, 0, NoBody)

\* get_verse_text, client.py:159-170: the chapter endpoint answered 200 with
\* the markup m of the chapter asked for
TxtResponse(p, m) ==
    /\ pc[p] = "txt_get"
    /\ TxtReturns(p, [by |-> p, chapter |-> ChapterReference(ref[p]), markup |-> m])
    /\ UNCHANGED <<clockVars, otherVars, limVars, limHist, authVars>>

\* the chapter request failed: with a status s other than 200
\* (client.py:159-168), or in transport, s = 0 (client.py:172-173)
TxtRefused(p, s) ==
    /\ pc[p] = "txt_get"
    /\ s # 200
    /\ TxtFails(p, Ev(p, "txt_error", FALSE, TxtError(s), [ref |-> ref[p], status |-> s]))
    /\ UNCHANGED <<clockVars, otherVars, limVars, limHist, authVars>>

\* a task calls get_verse_text(r) itself (client.py:133-135)
TxtCall(p, r) ==
    /\ IsUser(p) /\ pc[p] = "idle"
    /\ ncalls < FetchCalls
    /\ ncalls' = ncalls + 1
    /\ pc' = [pc EXCEPT ![p] = "txt_auth"]
    /\ ref' = [ref EXCEPT ![p] = r]
    /\ ret' = NoRet
    /\ UNCHANGED <<clockVars, otherVars, limVars, limHist, authVars, cache, reqday, votd, hdr, mres,
                   chapter_data, arrival, recency, overwrote, evicted, fbcalls>>

\* (a bug GatherResults could have: results in the order the members settled)
GatherResultsByArrival(c, n) == [i \in 1..n |-> mres[Member(c, arrival[c][i])]]

\* asyncio.gather(*tasks, return_exceptions=True): results in task order
GatherResults(c, n) == [i \in 1..n |-> mres[Member(c, i)]]

\* (a bug TextsOutcome could have: failed fetches are skipped, the rest returned)
TextsOutcomePartial(results) ==
    LET good == SelectSeq(results, LAMBDA r : r.st = "ok") IN
    [ok |-> good # <<>>, list |-> [i \in 1..Len(good) |-> good[i].data]]

\* get_verse_texts, client.py:198-209: the first exception becomes a ValueError
TextsOutcome(results) ==
    IF \E i \in DOMAIN results : results[i].st # "ok"
    THEN [ok |-> FALSE, list |-> <<>>]
    ELSE [ok |-> TRUE, list |-> [i \in DOMAIN results |-> results[i].data]]

\* (a bug FallbackRef could have: the last reference is fetched instead)
FallbackRefLast(usfm_refs) == usfm_refs[Len(usfm_refs)]

\* client.py:251,261: the fallback fetches usfm_ref = usfm_refs[0]
FallbackRef(usfm_refs) == usfm_refs[1]

\* (a bug get_formatted_verse_of_the_day could have: the sequential fetch
\* runs whether the concurrent fetch failed or not)
GatherDoneFetchesAgain(c) ==
    /\ pc[c] = "gather"
    /\ LET n == Len(votd[c].usfm)
           mine == {Member(c, i) : i \in 1..n}
           out == TextsOutcome(GatherResults(c, n))
       IN
       /\ \A q \in mine : pc[q] = "settled"
       /\ ret' = Ev(c, "texts", out.ok, out.list, [i \in 1..n |-> mres[Member(c, i)].st])
       /\ chapter_data' = chapter_data
       /\ pc' = [q \in Procs |-> IF q = c THEN "txt_auth"
                                 ELSE IF q \in mine THEN "idle" ELSE pc[q]]
       /\ ref' = [q \in Procs |-> IF q = c THEN FallbackRef(votd[c].usfm)
                                  ELSE IF q \in mine THEN <<>> ELSE ref[q]]
       /\ fbcalls' = [fbcalls EXCEPT ![c] = @ + 1]
       /\ arrival' = [arrival EXCEPT ![c] = <<>>]
       /\ mres' = [q \in Procs |-> IF q \in mine THEN NoRes ELSE mres[q]]
    /\ UNCHANGED <<clockVars, otherVars, limVars, limHist, authVars, cache, reqday, votd, hdr,
                   recency, overwrote, evicted, ncalls>>

\* (a bug get_verse_texts could have: gather without return_exceptions, so the
\* first failure ends the call while other members are still fetching)
GatherDoneFailsFast(c) ==
    /\ pc[c] = "gather"
    /\ LET n == Len(votd[c].usfm)
           mine == {Member(c, i) : i \in 1..n}
           out == TextsOutcome(GatherResults(c, n))
       IN
       /\ \/ \A q \in mine : pc[q] = "settled"
          \/ \E q \in mine : pc[q] = "settled" /\ mres[q].st # "ok"
       /\ ret' = Ev(c, "texts", out.ok, out.list, [i \in 1..n |-> mres[Member(c, i)].st])
       /\ IF out.ok
          THEN /\ chapter_data' = [chapter_data EXCEPT ![c] = out.list[1]]
               /\ pc' = [q \in Procs |-> IF q = c THEN "extract"
                                         ELSE IF q \in mine THEN "idle" ELSE pc[q]]
               /\ ref' = [q \in Procs |-> IF q \in mine THEN <<>> ELSE ref[q]]
               /\ fbcalls' = fbcalls
               /\ arrival' = arrival
          ELSE /\ chapter_data' = chapter_data
               /\ pc' = [q \in Procs |-> IF q = c THEN "txt_auth"
                                         ELSE IF q \in mine THEN "idle" ELSE pc[q]]
               /\ ref' = [q \in Procs |-> IF q = c THEN FallbackRef(votd[c].usfm)
                                          ELSE IF q \in mine THEN <<>> ELSE ref[q]]
               /\ fbcalls' = [fbcalls EXCEPT ![c] = @ + 1]
               /\ arrival' = [arrival EXCEPT ![c] = <<>>]
       /\ mres' = [q \in Procs |-> IF q \in mine THEN NoRes ELSE mres[q]]
    /\ UNCHANGED <<clockVars, otherVars, limVars, limHist, authVars, cache, reqday, votd, hdr,
                   recency, overwrote, evicted, ncalls>>

\* every member task has settled: get_verse_texts returns or raises, and
\* get_formatted_verse_of_the_day goes on at client.py:257 or 258-261
GatherDone(c) ==
    /\ pc[c] = "gather"
    /\ LET n == Len(votd[c].usfm)
           mine == {Member(c, i) : i \in 1..n}
           out == TextsOutcome(GatherResults(c, n))
       IN
       /\ \A q \in mine : pc[q] = "settled"
       /\ ret' = Ev(c, "texts", out.ok, out.list, [i \in 1..n |-> mres[Member(c, i)].st])
       /\ IF out.ok
          THEN /\ chapter_data' = [chapter_data EXCEPT ![c] = out.list[1]]
               /\ pc' = [q \in Procs |-> IF q = c THEN "extract"
                                         ELSE IF q \in mine THEN "idle" ELSE pc[q]]
               /\ ref' = [q \in Procs |-> IF q \in mine THEN <<>> ELSE ref[q]]
               /\ fbcalls' = fbcalls
               /\ arrival' = arrival
          ELSE /\ chapter_data' = chapter_data
               /\ pc' = [q \in Procs |-> IF q = c THEN "txt_auth"
                                         ELSE IF q \in mine THEN "idle" ELSE pc[q]]
               /\ ref' = [q \in Procs |-> IF q = c THEN FallbackRef(votd[c].usfm)
                                          ELSE IF q \in mine THEN <<>> ELSE ref[q]]
               /\ fbcalls' = [fbcalls EXCEPT ![c] = @ + 1]
               /\ arrival' = [arrival EXCEPT ![c] = <<>>]
       /\ mres' = [q \in Procs |-> IF q \in mine THEN NoRes ELSE mres[q]]
    /\ UNCHANGED <<clockVars, otherVars, limVars, limHist, authVars, cache, reqday, votd, hdr,
                   recency, overwrote, evicted, ncalls>>

\* (a bug the store could have without the cache lock: the eviction and the
\* insertion are two segments, and other tasks run in between)
FinishEvictsApart(c) ==
    /\ pc[c] = "extract"
    /\ LET r == votd[c].usfm[1]
           x == ExtractVerseText(chapter_data[c], ExtractVerseNumber(r))
           result == FormattedVerse(votd[c], r, x.text)
       IN  IF ~x.found
           THEN CallFails(c, Msg("Verse not found in chapter data", ExtractVerseNumber(r), ""))
           ELSE IF Len(cache) >= CacheMaxSize
           THEN /\ cache' = Tail(cache)
                /\ ret' = NoRet
                /\ UNCHANGED <<pc, reqday, votd, ref, hdr, mres, chapter_data, arrival,
                               clientHist>>
           ELSE /\ cache' = CacheStore(cache, reqday[c], now, result)
                /\ CallEnds(c, Ev(c, "fvotd", TRUE, result, reqday[c]))
                /\ UNCHANGED clientHist
    /\ UNCHANGED <<clockVars, otherVars, limVars, limHist, authVars>>

\* client.py:263-284: extract the verse, build the record, store and return it
Finish(c) ==
    /\ pc[c] = "extract"
    /\ LET r == votd[c].usfm[1]
           x == ExtractVerseText(chapter_data[c], ExtractVerseNumber(r))
           result == FormattedVerse(votd[c], r, x.text)
       IN  IF ~x.found
           THEN CallFails(c, Msg("Verse not found in chapter data", ExtractVerseNumber(r), ""))
           ELSE /\ cache' = CacheStore(cache, reqday[c], now, result)
                /\ CallEnds(c, Ev(c, "fvotd", TRUE, result, reqday[c]))
                /\ ncalls' = ncalls
                /\ evicted' = IF Len(cache) >= CacheMaxSize
                              THEN Append(evicted, Head(cache).day) ELSE evicted
                /\ overwrote' = (overwrote \/ reqday[c] \in CacheDays(cache))
                /\ recency' =
                     IF overwrote' THEN <<>>
                     ELSE Append(Without(IF Len(cache) >= CacheMaxSize
                                         THEN Tail(recency) ELSE recency,
                                         reqday[c]), reqday[c])
    /\ UNCHANGED <<clockVars, otherVars, limVars, limHist, authVars>>

\* time passes
Tick(d, most) ==
    /\ ticks < most
    /\ now' = now + d
    /\ ticks' = ticks + 1
    /\ ret' = NoRet
    /\ UNCHANGED <<pc, limVars, limHist, authVars, clientVars, clientHist, otherVars>>

\* task p holds chapter data with some content and the reference of a verse
\* in it (client.py:263-265)
ExtractStart(p) ==
    /\ IsUser(p) /\ pc[p] = "idle"
    /\ ncalls < ExtractCalls
    /\ \E content \in Contents, v \in {"1", "2"} :
          /\ ref' = [ref EXCEPT ![p] = <<"GEN", "1", v>>]
          /\ chapter_data' = [chapter_data EXCEPT ![p] =
                 [by |-> p, chapter |-> ChapterReference(<<"GEN", "1", v>>), markup |-> content]]
    /\ ncalls' = ncalls + 1
    /\ pc' = [pc EXCEPT ![p] = "extract"]
    /\ ret' = NoRet
    /\ UNCHANGED <<clockVars, otherVars, limVars, limHist, authVars, cache, reqday, votd, hdr, mres,
                   arrival, recency, overwrote, evicted, fbcalls>>

\* p runs _extract_verse_number and _extract_verse_text on it (client.py:264-265)
ExtractCall(p) ==
    /\ IsUser(p) /\ pc[p] = "extract"
    /\ LET n == ExtractVerseNumber(ref[p])
           x == ExtractFromContent(chapter_data[p].markup, n)
       IN  ret' = Ev(p, "extract", x.found,
                     IF x.found THEN x.text ELSE <<"Verse not found in chapter data">>,
                     [content |-> chapter_data[p].markup, verse |-> n])
    /\ pc' = [pc EXCEPT ![p] = "idle"]
    /\ ref' = [ref EXCEPT ![p] = <<>>]
    /\ chapter_data' = [chapter_data EXCEPT ![p] = NoData]
    /\ UNCHANGED <<clockVars, otherVars, limVars, limHist, authVars, cache, reqday, votd, hdr, mres,
                   arrival, clientHist>>

\* ------------------------------------------------------------------ a second RateLimiter
\* The second instance has its own max_calls, period, _calls and _lock
\* (rate_limiter.py:34-37).  A task inside one of its methods is at "second_acquire",
\* "second_reset" or "second_remaining" while it waits for the lock (it owns
\* the lock once the lock is handed to it) and at "second_sleep" while it
\* sleeps in acquire(); wake[p] and lnow[p] are its locals.

SecondOps == {"second_acquire", "second_reset", "second_remaining"}

\* (a bug the class could have: one lock shared by all instances)
SecondLockFreeShared == second.lock_owner = NoProc /\ lock_owner = NoProc

\* the second instance's own asyncio.Lock is free
SecondLockFree == second.lock_owner = NoProc

\* `while self._calls and self._calls[0] <= now - self.period: popleft()`
RECURSIVE SecondPrune(_, _)
SecondPrune(cs, n) ==
    IF cs # <<>> /\ Head(cs) <= n - second.period THEN SecondPrune(Tail(cs), n) ELSE cs

\* leaving `async with self._lock` with the ledger cs: the first waiter owns
\* the lock next
SecondReleased(cs) ==
    [second EXCEPT !.calls = cs,
                   !.lock_owner = IF second.lock_waiters = <<>> THEN NoProc
                                  ELSE Head(second.lock_waiters),
                   !.lock_waiters = IF second.lock_waiters = <<>> THEN <<>>
                                    ELSE Tail(second.lock_waiters)]

\* the body of method op run by p under the second instance's lock, up to
\* its return or its sleep: acquire lines 42-58, reset line 63,
\* get_remaining_calls lines 69-72 with the `now` n of line 67
SecondApply(p, op, n) ==
    LET cs == SecondPrune(second.calls, n) IN
    /\ IF op = "second_acquire" /\ Len(cs) >= second.max_calls
          /\ Head(cs) + second.period - n > 0
       THEN /\ second' = [second EXCEPT !.calls = cs, !.lock_owner = p]
            /\ pc' = [pc EXCEPT ![p] = "second_sleep"]
            /\ wake' = [wake EXCEPT ![p] = n + (Head(cs) + second.period - n)]
            /\ ret' = NoRet
       ELSE /\ second' = SecondReleased(
                            CASE op = "second_acquire" -> Append(SecondPrune(cs, now), now)
                              [] op = "second_reset" -> <<>>
                              [] OTHER -> cs)
            /\ pc' = [pc EXCEPT ![p] = "idle"]
            /\ wake' = [wake EXCEPT ![p] = -1]
            /\ ret' = Ev(p, op, TRUE,
                         IF op = "second_remaining" THEN second.max_calls - Len(cs) ELSE 0,
                         Len(second.calls) - Len(cs))
    /\ lnow' = [lnow EXCEPT ![p] = -1]
    /\ UNCHANGED <<clockVars, announcements, limCfg, calls, lock_owner, lock_waiters,
                   lstate, limHist, authVars, clientVars, clientHist>>

\* a task calls acquire(), reset() or get_remaining_calls() on the second
\* instance; get_remaining_calls reads the clock before it takes the lock
SecondEnter(p, op) ==
    /\ IsUser(p) /\ pc[p] = "idle"
    /\ IF SecondLockFree
       THEN SecondApply(p, op, now)
       ELSE /\ second' = [second EXCEPT !.lock_waiters = Append(@, p)]
            /\ pc' = [pc EXCEPT ![p] = op]
            /\ lnow' = [lnow EXCEPT ![p] = IF op = "second_remaining" THEN now ELSE -1]
            /\ ret' = NoRet
            /\ UNCHANGED <<clockVars, announcements, limCfg, calls, lock_owner,
                           lock_waiters, lstate, wake, limHist, authVars, clientVars,
                           clientHist>>

\* the second instance's lock was handed to p, which waited for it
SecondGranted(p) ==
    /\ pc[p] \in SecondOps
    /\ second.lock_owner = p
    /\ SecondApply(p, pc[p], IF pc[p] = "second_remaining" THEN lnow[p] ELSE now)

\* asyncio.sleep(sleep_time) inside the second instance's acquire() is over:
\* lines 52-58
SecondWake(p) ==
    /\ pc[p] = "second_sleep"
    /\ now >= wake[p]
    /\ second' = SecondReleased(Append(SecondPrune(second.calls, now), now))
    /\ pc' = [pc EXCEPT ![p] = "idle"]
    /\ wake' = [wake EXCEPT ![p] = -1]
    /\ ret' = Ev(p, "second_acquire", TRUE, 1, 0)
    /\ UNCHANGED <<clockVars, announcements, limCfg, calls, lock_owner, lock_waiters,
                   lstate, lnow, limHist, authVars, clientVars, clientHist>>

\* ------------------------------------------------------------------ AnnouncementsCog
\* Each command runs under the lock of `async with self.config.announcements()`
\* and is one step.  A stored announcement is held as its id, guild_id, time
\* and enabled fields; channel and message do not matter to the commands by id.

Guilds == 1..NumGuilds
\* time_str arguments of `announcement add`
TimeStrs == {"09:30", "24:00", "noon"}

\* `hour, minute = map(int, time_str.split(':'))` and the range check of
\* announcements_cog.py:60-63
ParseTime(s) ==
    CASE s = "09:30" -> [ok |-> TRUE, hour |-> 9, minute |-> 30]
      [] s = "24:00" -> [ok |-> FALSE, hour |-> 24, minute |-> 0]
      [] OTHER -> [ok |-> FALSE, hour |-> -1, minute |-> -1]

\* the first stored announcement with id n in guild g (the loops of lines
\* 130-132, 146-148, 161-163 and 177-181), 0 when there is none
FindAnnouncement(g, n) ==
    LET hits == {i \in DOMAIN announcements :
                    announcements[i].id = n /\ announcements[i].guild_id = g}
    IN  IF hits = {} THEN 0 ELSE CHOOSE i \in hits : \A j \in hits : i <= j

\* what a command leaves alone
CogFrame ==
    UNCHANGED <<clockVars, pc, second, limVars, limHist, authVars, clientVars, clientHist>>

\* `announcement add` in guild g with time_str s (lines 53-87)
AnnouncementAdd(p, g, s) ==
    /\ IsUser(p) /\ pc[p] = "idle"
    /\ Len(announcements) < MaxAnnouncements
    /\ LET t == ParseTime(s)
           n == Len(announcements) + 1
       IN  IF ~t.ok
           THEN /\ announcements' = announcements
                /\ ret' = Ev(p, "announcement_add", FALSE, "Invalid time format", s)
           ELSE /\ announcements' = Append(announcements,
                                           [id |-> n, guild_id |-> g,
                                            time |-> [hour |-> t.hour, minute |-> t.minute],
                                            enabled |-> TRUE])
                /\ ret' = Ev(p, "announcement_add", TRUE, n, s)
    /\ CogFrame

\* `announcement remove n` in guild g (lines 125-137); the event's val is the
\* position of the announcement removed
AnnouncementRemove(p, g, n) ==
    /\ IsUser(p) /\ pc[p] = "idle"
    /\ LET i == FindAnnouncement(g, n) IN
       /\ announcements' = IF i = 0 THEN announcements ELSE RemoveAt(announcements, i)
       /\ ret' = Ev(p, "announcement_remove", i # 0, i, n)
    /\ CogFrame

\* `announcement enable n` in guild g (lines 139-153)
AnnouncementEnable(p, g, n) ==
    /\ IsUser(p) /\ pc[p] = "idle"
    /\ LET i == FindAnnouncement(g, n) IN
       /\ announcements' = IF i = 0 THEN announcements
                           ELSE [announcements EXCEPT ![i].enabled = TRUE]
       /\ ret' = Ev(p, "announcement_enable", i # 0, i, n)
    /\ CogFrame

\* `announcement disable n` in guild g (lines 155-169)
AnnouncementDisable(p, g, n) ==
    /\ IsUser(p) /\ pc[p] = "idle"
    /\ LET i == FindAnnouncement(g, n) IN
       /\ announcements' = IF i = 0 THEN announcements
                           ELSE [announcements EXCEPT ![i].enabled = FALSE]
       /\ ret' = Ev(p, "announcement_disable", i # 0, i, n)
    /\ CogFrame

\* `announcement test n` in guild g (lines 171-203): the message of the
\* announcement found is sent when it is enabled
AnnouncementTest(p, g, n) ==
    /\ IsUser(p) /\ pc[p] = "idle"
    /\ LET i == FindAnnouncement(g, n) IN
       ret' = Ev(p, "announcement_test", i # 0 /\ announcements[i].enabled, i, n)
    /\ announcements' = announcements
    /\ CogFrame

\* ------------------------------------------------------------------ specifications

InitTasks ==
    /\ now = 0
    /\ ticks = 0
    /\ pc = [p \in Procs |-> "idle"]
    /\ ret = NoRet
    /\ lstate = [p \in Procs |-> "none"]
    /\ wake = [p \in Procs |-> -1]
    /\ lnow = [p \in Procs |-> -1]
    /\ admitted = <<>>
    /\ resetUsed = FALSE
    /\ acqlog = [p \in Procs |-> NoLog]

\* a second RateLimiter(1, 1) (rate_limiter.py:29-37) and the cog's default
\* "announcements": [] (announcements_cog.py:24-28)
InitOther ==
    /\ second = [max_calls |-> 1, period |-> 1, calls |-> <<>>,
                 lock_owner |-> NoProc, lock_waiters |-> <<>>]
    /\ announcements = <<>>

\* RateLimiter.__init__ (rate_limiter.py:29-37) with valid parameters
InitLimiter(k, m, per) ==
    /\ kind = k
    /\ max_calls = m
    /\ period = per
    /\ calls = <<>>
    /\ lock_owner = NoProc
    /\ lock_waiters = <<>>

\* YouVersionAuthenticator.__init__ (auth.py:38-42) with credentials present
InitAuth ==
    /\ credentials = [built |-> TRUE, username |-> "set", password |-> "set"]
    /\ token = 0
    /\ expiry = -1
    /\ user_id = 0
    /\ astate = [p \in Procs |-> "none"]

\* YouVersionClient.__init__ (client.py:46-50): an empty cache
InitClient ==
    /\ cache = <<>>
    /\ reqday = [p \in Procs |-> 0]
    /\ votd = [p \in Procs |-> NoEntry]
    /\ ref = [p \in Procs |-> <<>>]
    /\ hdr = [p \in Procs |-> 0]
    /\ mres = [p \in Procs |-> NoRes]
    /\ chapter_data = [p \in Procs |-> NoData]
    /\ arrival = [p \in Procs |-> <<>>]
    /\ recency = <<>>
    /\ overwrote = FALSE
    /\ evicted = <<>>
    /\ ncalls = 0
    /\ fbcalls = [p \in Procs |-> 0]

\* Users call acquire(), reset() and get_remaining_calls() on one limiter
LimiterInit ==
    /\ InitTasks
    /\ InitOther
    /\ InitAuth
    /\ InitClient
    /\ \E k \in {"blocking", "nonblocking"}, m \in 1..MaxLimit, per \in 1..MaxPeriod :
          InitLimiter(k, m, per)

LimiterNext ==
    \/ \E p \in Users : AcquireEnter(p)
    \/ \E p \in Users : AcquireGranted(p)
    \/ \E p \in Users : AcquireWake(p)
    \/ \E p \in Users : ResetEnter(p)
    \/ \E p \in Users : ResetGranted(p)
    \/ \E p \in Users : RemainingEnter(p)
    \/ \E p \in Users : RemainingGranted(p)
    \/ Tick(1, MaxTicks)

LimiterSpec == LimiterInit /\ [][LimiterNext]_vars

\* Users call get_access_token() on one authenticator
AuthInit ==
    /\ InitTasks
    /\ InitOther
    /\ InitAuth
    /\ InitClient
    /\ InitLimiter("blocking", 1, 1)

AuthNext ==
    \/ \E p \in Users : TokenEnter(p)
    \/ \E p \in Users, t \in Tokens, e \in ExpiresIn : TokenGranted(p, t, e)
    \/ \E p \in Users, s \in Statuses \cup {0} : TokenRefused(p, s)
    \/ \E d \in {30, 3510} : Tick(d, MaxTicks)

AuthSpec == AuthInit /\ [][AuthNext]_vars

\* Callers call get_formatted_verse_of_the_day() on one client, whose limiter
\* is a RateLimiter with a period of 60 seconds (client.py:53-55)
ClientInit ==
    /\ InitTasks
    /\ InitOther
    /\ InitAuth
    /\ InitClient
    /\ InitLimiter("blocking", ClientLimit, 60)

ClientTasks == {p \in Callers \cup Members : p[1] = 1}

ClientNext ==
    \/ \E c \in {<<1, 0>>}, d \in 1..NumDays : StartFormatted(c, d)
    \/ \E p \in ClientTasks : AcquireEnter(p)
    \/ \E p \in ClientTasks : AcquireGranted(p)
    \/ \E p \in ClientTasks : AcquireWake(p)
    \/ \E c \in {<<1, 0>>}, env \in Envelopes : EnvResponse(c, env)
    \/ \E c \in {<<1, 0>>} : EnvRefused(c)
    \/ \E p \in ClientTasks : TokenEnter(p)
    \/ \E p \in ClientTasks : TokenGranted(p, 1, -1)
    \/ \E p \in ClientTasks : TokenRefused(p, 500)
    \/ \E p \in ClientTasks, m \in Markups : TxtResponse(p, m)
    \/ \E p \in ClientTasks : TxtRefused(p, 500)
    \/ \E c \in {<<1, 0>>} : GatherDone(c)
    \/ \E c \in {<<1, 0>>} : Finish(c)
    \/ \E d \in {60, 86400} : Tick(d, ClientTicks)

ClientSpec == ClientInit /\ [][ClientNext]_vars

\* two callers call get_formatted_verse_of_the_day() concurrently on one
\* client; every envelope entry names one reference
PairTasks == Callers \cup Members

PairNext ==
    \/ \E c \in Callers, d \in 1..NumDays : ncalls < PairCalls /\ StartFormatted(c, d)
    \/ \E p \in PairTasks : AcquireEnter(p)
    \/ \E p \in PairTasks : AcquireGranted(p)
    \/ \E p \in PairTasks : AcquireWake(p)
    \/ \E c \in Callers, env \in PairEnvelopes : EnvResponse(c, env)
    \/ \E p \in PairTasks : TokenEnter(p)
    \/ \E p \in PairTasks : TokenGranted(p, 1, -1)
    \/ \E p \in PairTasks, m \in Markups : TxtResponse(p, m)
    \/ \E p \in PairTasks : TxtRefused(p, 500)
    \/ \E c \in Callers : GatherDone(c)
    \/ \E c \in Callers : Finish(c)
    \/ Tick(60, 1)

PairSpec == ClientInit /\ [][PairNext]_vars

\* Workers call acquire() on one blocking limiter, LiveCalls times in all and
\* up to NumUsers of them at once (test_concurrent_acquisitions); the clock
\* advances while a worker sleeps.  The event loop runs every task that is
\* ready, and the clock does not stop: weak fairness of every step.
WorkersInit ==
    /\ InitTasks
    /\ InitOther
    /\ InitAuth
    /\ InitClient
    /\ \E m \in 1..MaxLimit, per \in 1..MaxPeriod : InitLimiter("blocking", m, per)

CallsStarted == Len(admitted) + Cardinality({p \in Users : lstate[p] # "none"})

WorkerCalls(p) == CallsStarted < LiveCalls /\ AcquireEnter(p)

SleepTick ==
    /\ \E p \in Users : lstate[p] = "sleeping" /\ now < wake[p]
    /\ Tick(1, LiveCalls * MaxPeriod)

WorkersNext ==
    \/ \E p \in Users : WorkerCalls(p)
    \/ \E p \in Users : AcquireGranted(p)
    \/ \E p \in Users : AcquireWake(p)
    \/ SleepTick

WorkersSpec ==
    /\ WorkersInit
    /\ [][WorkersNext]_vars
    /\ WF_vars(\E p \in Users : WorkerCalls(p))
    /\ \A p \in Users : WF_vars(AcquireGranted(p)) /\ WF_vars(AcquireWake(p))
    /\ WF_vars(SleepTick)

\* Users call get_verse_of_the_day() on one client, whose limiter admits one
\* call per 60 seconds; the envelope endpoint answers with any status and any
\* body, or the transport fails
VotdInit ==
    /\ InitTasks
    /\ InitOther
    /\ InitAuth
    /\ InitClient
    /\ InitLimiter("blocking", 1, 60)

Fetchers == {p \in Users : p[2] <= FetchUsers}

VotdNext ==
    \/ \E p \in Fetchers, d \in 1..NumDays : VotdCall(p, d)
    \/ \E p \in Fetchers : AcquireEnter(p) /\ pc[p] = "env_acquire"
    \/ \E p \in Fetchers : AcquireGranted(p)
    \/ \E p \in Fetchers : AcquireWake(p)
    \/ \E p \in Fetchers, s \in Statuses, body \in VotdBodies : VotdResponse(p, s, body)
    \/ \E p \in Fetchers : VotdTransportError(p)
    \/ Tick(60, ClientTicks)

VotdSpec == VotdInit /\ [][VotdNext]_vars

\* Users call get_verse_of_the_day() and get_verse_text() on one client; both
\* endpoints answer with any status, or the transport fails
FetchNext ==
    \/ \E p \in Fetchers, d \in 1..NumDays : VotdCall(p, d)
    \/ \E p \in Fetchers, r \in {RefGen, RefJhn} : TxtCall(p, r)
    \/ \E p \in Fetchers : TokenEnter(p) /\ pc[p] = "txt_auth"
    \/ \E p \in Fetchers : TokenGranted(p, 1, -1)
    \/ \E p \in Fetchers : TokenRefused(p, 500)
    \/ \E p \in Fetchers : AcquireEnter(p) /\ pc[p] \in {"env_acquire", "txt_acquire"}
    \/ \E p \in Fetchers : AcquireGranted(p)
    \/ \E p \in Fetchers : AcquireWake(p)
    \/ \E p \in Fetchers, s \in Statuses, body \in {NoBody, [has |-> TRUE, votd |-> EnvTwo]} :
          VotdResponse(p, s, body)
    \/ \E p \in Fetchers : VotdTransportError(p)
    \/ \E p \in Fetchers, m \in Markups : TxtResponse(p, m)
    \/ \E p \in Fetchers, s \in Statuses \cup {0} : TxtRefused(p, s)
    \/ Tick(60, ClientTicks)

FetchSpec == VotdInit /\ [][FetchNext]_vars

\* no limiter exists yet; Users construct one, with parameters of either
\* sign, and then call acquire() and get_remaining_calls() on it
BuildInit ==
    /\ InitTasks
    /\ InitOther
    /\ InitAuth
    /\ InitClient
    /\ kind = "none"
    /\ max_calls = 0
    /\ period = 0
    /\ calls = <<>>
    /\ lock_owner = NoProc
    /\ lock_waiters = <<>>

BuildNext ==
    \/ \E p \in Users, k \in {"blocking", "nonblocking"},
          m \in BadParams \cup 1..MaxLimit, per \in BadParams \cup 1..MaxPeriod :
             Construct(p, k, m, per)
    \/ \E p \in Users : kind # "none" /\ AcquireEnter(p)
    \/ \E p \in Users : kind # "none" /\ AcquireGranted(p)
    \/ \E p \in Users : kind # "none" /\ AcquireWake(p)
    \/ \E p \in Users : kind # "none" /\ RemainingEnter(p)
    \/ \E p \in Users : kind # "none" /\ RemainingGranted(p)
    \/ kind # "none" /\ Tick(1, MaxTicks)

BuildSpec == BuildInit /\ [][BuildNext]_vars

\* no authenticator exists yet; Users construct an authenticator or a client,
\* with the credentials set, empty or missing, and call get_access_token()
\* on the authenticator once there is one
CredsInit ==
    /\ InitTasks
    /\ InitOther
    /\ InitClient
    /\ InitLimiter("blocking", 1, 1)
    /\ credentials = NoAuth
    /\ token = 0
    /\ expiry = -1
    /\ user_id = 0
    /\ astate = [p \in Procs |-> "none"]

CredsNext ==
    \/ \E p \in Users, u \in EnvValues, pw \in EnvValues : ConstructAuth(p, u, pw)
    \/ \E p \in Users, u \in EnvValues, pw \in EnvValues : ConstructClient(p, u, pw)
    \/ \E p \in Users : credentials.built /\ TokenEnter(p)
    \/ \E p \in Users, t \in Tokens, e \in ExpiresIn : TokenGranted(p, t, e)
    \/ \E p \in Users, s \in Statuses \cup {0} : TokenRefused(p, s)
    \/ \E d \in {30, 3510} : Tick(d, MaxTicks)

CredsSpec == CredsInit /\ [][CredsNext]_vars

\* a task extracts a verse from chapter contents of every shape
ExtractNext ==
    \/ \E p \in Fetchers : ExtractStart(p)
    \/ \E p \in Fetchers : ExtractCall(p)

ExtractSpec == ClientInit /\ [][ExtractNext]_vars

\* no limiter exists yet; a task builds one from the environment, with every
\* combination of set and unset variables and of defaults
EnvNext ==
    \E p \in {<<0, 1>>}, mc \in EnvNumbers, pe \in EnvNumbers \ {"1.5"},
       dm \in BadParams \cup 1..MaxLimit, dp \in BadParams \cup 1..MaxPeriod :
          GetLimiterFromEnv(p, mc, pe, dm, dp)

EnvSpec == BuildInit /\ [][EnvNext]_vars


\* Users call the methods of two limiters, RateLimiter(1, 2) and
\* RateLimiter(1, 1), while the clock advances
TwoInit ==
    /\ InitTasks
    /\ InitOther
    /\ InitAuth
    /\ InitClient
    /\ InitLimiter("blocking", 1, 2)

TwoNext ==
    \/ \E p \in Users : AcquireEnter(p)
    \/ \E p \in Users : AcquireGranted(p)
    \/ \E p \in Users : AcquireWake(p)
    \/ \E p \in Users : ResetEnter(p)
    \/ \E p \in Users : ResetGranted(p)
    \/ \E p \in Users : RemainingEnter(p)
    \/ \E p \in Users : RemainingGranted(p)
    \/ \E p \in Users, op \in SecondOps : SecondEnter(p, op)
    \/ \E p \in Users : SecondGranted(p)
    \/ \E p \in Users : SecondWake(p)
    \/ Tick(1, MaxTicks)

TwoSpec == TwoInit /\ [][TwoNext]_vars

\* one task runs the announcement commands of AnnouncementsCog, starting
\* from the default empty list
CogInit ==
    /\ InitTasks
    /\ InitOther
    /\ InitAuth
    /\ InitClient
    /\ InitLimiter("blocking", 1, 1)

CogNext ==
    \/ \E p \in {<<0, 1>>}, g \in Guilds, s \in TimeStrs : AnnouncementAdd(p, g, s)
    \/ \E p \in {<<0, 1>>}, g \in Guilds, n \in 1..MaxAnnouncements : AnnouncementRemove(p, g, n)
    \/ \E p \in {<<0, 1>>}, g \in Guilds, n \in 1..MaxAnnouncements : AnnouncementEnable(p, g, n)
    \/ \E p \in {<<0, 1>>}, g \in Guilds, n \in 1..MaxAnnouncements : AnnouncementDisable(p, g, n)
    \/ \E p \in {<<0, 1>>}, g \in Guilds, n \in 1..MaxAnnouncements : AnnouncementTest(p, g, n)

CogSpec == CogInit /\ [][CogNext]_vars

\* ------------------------------------------------------------------ properties

\* number of acquire() calls admitted in the trailing window (t - period, t]
WindowCount(t) ==
    Cardinality({i \in DOMAIN admitted : admitted[i] > t - period /\ admitted[i] <= t})

\* C1: for every max_calls and period, blocking or not, and every interleaving
\* of acquire(), reset() and get_remaining_calls() by concurrent tasks, the
\* ledger never holds more than max_calls timestamps, and while no reset() has
\* run no trailing window of length period holds more than max_calls admitted
\* acquire() calls.
C1_WindowBound ==
    /\ Len(calls) <= max_calls
    /\ ~resetUsed => \A t \in 0..now : WindowCount(t) <= max_calls

\* C1 witness: a blocking limiter that admitted more than max_calls calls
\* without any reset, has a full ledger and a caller suspended on its lock
C1_Witness ==
    /\ kind = "blocking"
    /\ ~resetUsed
    /\ Len(admitted) > max_calls
    /\ Len(calls) = max_calls
    /\ lock_waiters # <<>>

\* C2: whatever calls of get_formatted_verse_of_the_day two concurrent
\* callers make, and however they interleave and end, the cache never holds
\* more than its maximum number of entries.
C2_CacheBounded == Len(cache) <= CacheMaxSize

\* C2 witness: a call has just stored its result, the cache is full, and an
\* entry had to be evicted on the way
C2_Witness ==
    /\ ret.op = "fvotd" /\ ret.ok
    /\ Len(cache) = CacheMaxSize
    /\ evicted # <<>>

\* the step in which caller c starts get_formatted_verse_of_the_day(d) and
\* runs its cache check
LookupStep(c, d) ==
    /\ pc[c] = "idle"
    /\ ncalls' = ncalls + 1
    /\ ret'.proc = c
    /\ ret'.op \in {"fvotd_hit", "fvotd_miss"}
    /\ ret'.arg = d

\* the step in which get_formatted_verse_of_the_day of caller c returns a
\* result it has fetched
ReturnStep(c) ==
    /\ pc[c] = "extract"
    /\ pc'[c] = "idle"
    /\ ret'.proc = c
    /\ ret'.op = "fvotd"
    /\ ret'.ok

\* C3: a lookup that finds an entry for its day younger than the TTL returns
\* the cached data at once; no task moves (so no request is sent), the
\* limiter and the authenticator are untouched, and the cache changes only
\* in that the entry is now the most recent one.
C3_HitOnlyRefreshes ==
    [][\A c \in Callers, d \in 1..NumDays :
        LET i == CacheIndex(cache, d) IN
        (LookupStep(c, d) /\ i # 0 /\ now - cache[i].ts < CACHE_TTL) =>
            /\ ret'.op = "fvotd_hit"
            /\ ret'.val = cache[i].data
            /\ cache' = Append(RemoveAt(cache, i), cache[i])
            /\ UNCHANGED <<clockVars, pc, limVars, authVars, reqday, votd, ref, hdr,
                           mres, chapter_data, arrival>>
      ]_vars

\* C3 witness: the last call was a hit on the older of two cached entries,
\* which now stands behind the younger one
C3_Witness ==
    /\ ret.op = "fvotd_hit"
    /\ Len(cache) = 2
    /\ cache[2].day = ret.arg
    /\ cache[2].data = ret.val
    /\ cache[2].ts < cache[1].ts

\* C4: a lookup that finds an entry at least 86400 seconds old does not
\* return it: it reports a miss, deletes the entry and goes on to the
\* envelope request; and a call that returns a fetched result has envelope
\* and chapter data behind it and leaves an entry for its day stamped with
\* the current time and holding the returned result.
C4_ExpiredIsRefetched ==
    [][\A c \in Callers, d \in 1..NumDays :
        LET i == CacheIndex(cache, d) IN
        /\ (LookupStep(c, d) /\ i # 0 /\ now - cache[i].ts >= 86400) =>
              /\ ret'.op = "fvotd_miss"
              /\ cache' = RemoveAt(cache, i)
              /\ pc'[c] = "env_acquire"
              /\ reqday'[c] = d
        /\ (ReturnStep(c) /\ reqday[c] = d) =>
              /\ votd[c] # NoEntry
              /\ chapter_data[c] # NoData
              /\ \E j \in DOMAIN cache' :
                    /\ cache'[j].day = d
                    /\ cache'[j].ts = now
                    /\ cache'[j].data = ret'.val
              /\ Cardinality({j \in DOMAIN cache' : cache'[j].day = d}) = 1
      ]_vars

\* C4 witness: the last lookup found an entry of exactly the TTL's age for
\* its day and removed it
C4_Witness ==
    /\ ret.op = "fvotd_miss"
    /\ ret.val = 1
    /\ now >= 86400
    /\ ret.arg \notin CacheDays(cache)
    /\ pc[ret.proc] = "env_acquire"

CacheEntries(ch) == {ch[i] : i \in DOMAIN ch}

\* C5: while every store has been for a day the cache did not hold, a store
\* into a full cache removes exactly one entry, the one whose last insertion
\* or hit lies furthest back; every other entry stays as it was and the new
\* day is added.
C5_EvictsLeastRecent ==
    [][\A c \in Callers :
        (/\ ReturnStep(c)
         /\ ~overwrote
         /\ reqday[c] \notin CacheDays(cache)
         /\ Len(cache) = CacheMaxSize) =>
            LET gone == CacheEntries(cache) \ CacheEntries(cache') IN
            /\ Len(cache') = CacheMaxSize
            /\ Cardinality(gone) = 1
            /\ \A e \in gone : e.day = Head(recency)
            /\ CacheDays(cache') = (CacheDays(cache) \ {Head(recency)}) \cup {reqday[c]}
      ]_vars

\* C5 witness: the cache is full again after an eviction although the entry
\* with the oldest timestamp was not the one evicted
C5_Witness ==
    /\ ret.op = "fvotd" /\ ret.ok
    /\ ~overwrote
    /\ evicted # <<>>
    /\ Len(cache) = CacheMaxSize
    /\ cache[1].ts = 0
    /\ now > 0
    /\ recency[1] = cache[1].day

\* C6: when get_verse_texts fails, the caller itself calls get_verse_text
\* once, for the first reference of the envelope entry; while that call runs
\* none of its member tasks runs again; the chapter data the caller goes on
\* with is the response to that one call, and the result is built from it.
C6_FallbackFirstOnly ==
    [][\A c \in Callers :
        LET r1 == votd[c].usfm[1]
            quiet == \A i \in 1..MaxRefs : pc'[Member(c, i)] = "idle"
        IN
        /\ (pc[c] = "gather" /\ ret'.proc = c /\ ret'.op = "texts" /\ ~ret'.ok) =>
              /\ pc'[c] = "txt_auth"
              /\ ref'[c] = r1
              /\ fbcalls'[c] = 1
              /\ quiet
        /\ pc[c] \in {"txt_auth", "txt_acquire", "txt_get"} =>
              /\ fbcalls[c] = 1 /\ fbcalls'[c] \in {0, 1}
              /\ ref[c] = r1
              /\ quiet
        /\ (pc[c] = "txt_get" /\ pc'[c] = "extract") =>
              /\ chapter_data'[c].by = c
              /\ chapter_data'[c].chapter = <<r1[1], r1[2]>>
        /\ (ReturnStep(c) /\ fbcalls[c] = 1) =>
              /\ chapter_data[c].by = c
              /\ ret'.val.usfm = r1
              /\ ret'.val.verse_text[1] = chapter_data[c].chapter
      ]_vars

\* C6 witness: an entry with two references, get_verse_texts failed, and the
\* single fallback call has answered
C6_Witness ==
    \E c \in Callers :
        /\ pc[c] = "extract"
        /\ fbcalls[c] = 1
        /\ Len(votd[c].usfm) = 2
        /\ chapter_data[c].by = c

\* C7: when the fetch of any reference failed, get_verse_texts raises: it
\* returns no list, whatever the other fetches gave, and its caller does not
\* go on with chapter data from it.
C7_AllOrNothing ==
    (ret.op = "texts" /\ \E i \in DOMAIN ret.arg : ret.arg[i] # "ok") =>
        /\ ~ret.ok
        /\ ret.val = <<>>
        /\ pc[ret.proc] # "extract"

\* C7 witness: get_verse_texts raised although the first of its two fetches
\* had succeeded
C7_Witness ==
    /\ ret.op = "texts"
    /\ ~ret.ok
    /\ ret.arg = <<"ok", "err">>

\* C8: when every member fetch succeeded, get_verse_texts returns one result
\* per reference, and result i is the response to the request member task i
\* made for reference i, whatever the order in which the members were
\* admitted and settled.
C8_InputOrder ==
    (ret.op = "texts" /\ ret.ok) =>
        LET c == ret.proc
            refs == votd[c].usfm
        IN  /\ Len(ret.val) = Len(refs)
            /\ \A i \in DOMAIN refs :
                  /\ ret.val[i].by = Member(c, i)
                  /\ ret.val[i].chapter = <<refs[i][1], refs[i][2]>>

\* C8 witness: two fetches succeeded and the second settled first
C8_Witness ==
    /\ ret.op = "texts" /\ ret.ok
    /\ Len(ret.val) = 2
    /\ arrival[ret.proc] = <<2, 1>>

\* C9: get_access_token() returns the stored token without a token request
\* exactly when a token is stored and now < expiry - 60; otherwise it sends a
\* token request, and when that succeeds it returns the token it then stored.
\* (ret describes the step just taken, which did not move the clock.)
C9_TokenReuse ==
    LET fresh == token # 0 /\ now < expiry - 60 IN
    /\ ret.op = "token_cached" => fresh /\ ret.val = token
    /\ ret.op = "token_post" => ~fresh
    /\ ret.op = "token_fresh" => ret.val = token /\ token # 0

\* C9 witness: a token is stored with expiry = now + 30 and the call sends a
\* token request instead of returning it
C9_Witness ==
    /\ ret.op = "token_post"
    /\ token # 0
    /\ expiry = now + 30

\* the step in which the acquire() of p returns normally
AcquireReturns(p) ==
    ret'.proc = p /\ ret'.op = "acquire" /\ ret'.ok /\ calls' # calls

\* C10: on a blocking limiter, an acquire() that finds max_calls unexpired
\* timestamps does not return at once; when it returns, the oldest of them
\* is at least a full period old and the timestamp it records is the clock
\* read after the wait, later than the time its body started.  The same
\* bound holds for the ledger as it was when acquire() was called, when no
\* reset() ran.
C10_BlockedAcquireWaits ==
    [][\A p \in Procs :
        (kind = "blocking" /\ AcquireReturns(p)) =>
            /\ lstate[p] # "sleeping" => FullOldest(calls, now) = -1
            /\ lstate[p] = "sleeping" =>
                  /\ now >= Head(calls) + period
                  /\ Last(calls') = now
                  /\ now > acqlog[p].start
            /\ (~resetUsed /\ acqlog[p].coldest >= 0) =>
                  now >= acqlog[p].coldest + period
      ]_vars

\* C10 witness: the acquire() that returned last had to wait, and its
\* timestamp is the current clock value
C10_Witness ==
    /\ kind = "blocking"
    /\ ret.op = "acquire" /\ ret.ok
    /\ ret.val = 1
    /\ Len(calls) = max_calls
    /\ Last(calls) = now
    /\ now >= period

\* the timestamps of the ledger that are newer than now - period
Unexpired == SelectSeq(calls, LAMBDA t : t > now - period)

\* C11: on a non-blocking limiter no task is ever suspended and the lock is
\* free after every step; an acquire() that finds max_calls unexpired
\* timestamps raises RateLimitExceeded in the step it is called in, with the
\* clock unmoved and no timestamp recorded; one that finds fewer records the
\* current time and returns.
C11_NonBlockingFailsFast ==
    [][kind = "nonblocking" =>
        /\ lock_owner' = NoProc /\ lock_waiters' = <<>>
        /\ \A p \in Procs : lstate'[p] = "none" /\ pc'[p] = "idle"
        /\ \A p \in Users :
              (ret'.proc = p /\ ret'.op = "acquire") =>
                 /\ now' = now
                 /\ IF Len(Unexpired) >= max_calls
                    THEN ~ret'.ok /\ calls' = Unexpired
                    ELSE ret'.ok /\ calls' = Append(Unexpired, now)
      ]_vars

\* C11 witness: the last acquire() on a non-blocking limiter raised; the
\* ledger is full and the lock is free
C11_Witness ==
    /\ kind = "nonblocking"
    /\ ret.op = "acquire" /\ ~ret.ok
    /\ Len(calls) = max_calls
    /\ lock_owner = NoProc

\* C12: when workers call a blocking limiter concurrently, more of them than
\* max_calls, and the clock advances, every worker inside acquire()
\* eventually leaves it and all the calls are eventually admitted; the first
\* max_calls of them are admitted before the clock has moved and every later
\* one only after it has moved on by a period or more.
C12_EveryCallerAdmitted ==
    /\ \A p \in Users : (lstate[p] # "none") ~> (lstate[p] = "none")
    /\ <>(Len(admitted) = LiveCalls /\ \A p \in Users : lstate[p] = "none")
    /\ [](\A i \in DOMAIN admitted :
             IF i <= max_calls THEN admitted[i] = 0 ELSE admitted[i] >= period)

\* C12 witness: all the calls have been admitted, the last of them after it
\* had queued for the lock and slept
C12_Witness ==
    /\ Len(admitted) = LiveCalls
    /\ \A p \in Users : lstate[p] = "none"
    /\ ret.op = "acquire" /\ ret.ok /\ ret.val = 1
    /\ Last(admitted) = now
    /\ now > 0

\* C13: get_remaining_calls() returns max_calls minus the number of recorded
\* timestamps newer than now - period, where now is the clock value the call
\* read at its start (the current clock whenever the call did not have to wait
\* for the lock), and the result is always within 0..max_calls, on either
\* limiter variant and after any acquire/reset calls.
C13_RemainingIsWindowComplement ==
    [][\A p \in Users : (ret'.proc = p /\ ret'.op = "remaining") =>
          LET n == IF lstate[p] = "none" THEN now ELSE lnow[p]
              newer == SelectSeq(calls, LAMBDA t : t > n - period)
          IN /\ ret'.val = max_calls - Len(newer)
             /\ ret'.val \in 0..max_calls
             /\ ret'.ok
             /\ now' = now]_vars

\* C13 witness: a get_remaining_calls() has returned a value strictly between 0
\* and max_calls after expired timestamps had left the ledger
C13_Witness ==
    /\ ret.op = "remaining"
    /\ ret.val > 0 /\ ret.val < max_calls
    /\ ret.val = max_calls - Len(calls)
    /\ Len(admitted) > Len(calls)

\* C14: reset() empties the ledger whatever it held; with the ledger empty, as
\* it is right after reset() completes, get_remaining_calls() returns max_calls
\* and the next acquire() of either variant is admitted with no wait and no
\* RateLimitExceeded.
C14_ResetEmptiesLedger ==
    [][/\ ret'.op = "reset" => ret'.ok /\ calls' = <<>>
       /\ (calls = <<>> /\ ret'.op = "remaining") => ret'.val = max_calls
       /\ (calls = <<>> /\ ret'.op = "acquire") =>
             ret'.ok /\ ret'.val = 0 /\ now' = now /\ calls' = <<now>>]_vars

\* C14 witness: a reset() has just completed on a ledger that was full
C14_Witness ==
    /\ ret.op = "reset"
    /\ ret.val = max_calls
    /\ calls = <<>>
    /\ now > 0

\* C15: get_verse_of_the_day(day), when the envelope endpoint answers 200,
\* returns the first entry of the list whose day equals the requested day; if
\* no entry matches and the list is non-empty it returns the first entry; if
\* the list is empty or missing it fails with a not-found error.
C15_EntrySelection ==
    (ret.op = "votd" /\ ret.arg.status = 200) =>
        LET l == IF ret.arg.body.has THEN ret.arg.body.votd ELSE <<>>
            d == ret.arg.day
            matching == {i \in DOMAIN l : l[i].day = d}
        IN  IF matching # {}
            THEN ret.ok /\ \E i \in matching :
                    ret.val = l[i] /\ \A j \in matching : i <= j
            ELSE IF l # <<>>
            THEN ret.ok /\ ret.val = l[1]
            ELSE ~ret.ok /\ ret.val.text = "No verse of the day found for day"
                         /\ ret.val.code = d

\* C15 witness: the requested day is matched by the second and the third entry
\* of the list but not by the first, and the second entry was returned
C15_Witness ==
    /\ ret.op = "votd" /\ ret.arg.status = 200 /\ ret.ok
    /\ Len(ret.arg.body.votd) = 3
    /\ ret.arg.body.votd[1].day # ret.arg.day
    /\ ret.arg.body.votd[2].day = ret.arg.day
    /\ ret.arg.body.votd[3].day = ret.arg.day
    /\ ret.val = ret.arg.body.votd[2]

\* C16: on a cache miss the concurrent fetch is started with every reference
\* of the envelope entry, and a successful call returns the record whose usfm
\* is the entry's first reference, whose verse_text is the verse numbered by
\* that reference's third component, taken from a chapter fetched for that
\* first reference, whose version_id is 1 and whose day and image_id are the
\* entry's: nothing in it comes from a later reference.
C16_RecordFromFirstReference ==
    [][\A c \in Callers :
        /\ (pc[c] = "env_get" /\ pc'[c] = "gather") =>
              \A i \in DOMAIN votd'[c].usfm :
                  /\ pc'[Member(c, i)] = "txt_auth"
                  /\ ref'[Member(c, i)] = votd'[c].usfm[i]
        /\ (ret'.proc = c /\ ret'.op = "fvotd" /\ ret'.ok) =>
              LET e == votd[c]
                  r1 == e.usfm[1]
                  data == chapter_data[c]
                  n == ParseInt(r1[3])
              IN  /\ data.by \in {c, Member(c, 1)}
                  /\ data.chapter = <<r1[1], r1[2]>>
                  /\ n \in VersesIn(data.markup)
                  /\ ret'.val = [day |-> e.day, usfm |-> r1,
                                 human_reference |-> <<BookName(r1[1]), r1[2], r1[3]>>,
                                 verse_text |-> <<data.chapter, n>>,
                                 version_id |-> 1, image_id |-> e.image_id]
      ]_vars

\* C16 witness: the entry named Genesis 1:1 and John 3:16, both chapters were
\* fetched, and the record returned is the one for Genesis 1:1
C16_Witness ==
    /\ ret.op = "fvotd" /\ ret.ok
    /\ ret.val.usfm = RefGen
    /\ ret.val.verse_text = << <<"GEN", "1">>, 1 >>
    /\ ret.val.day = 1 /\ ret.val.image_id = 101
    /\ fbcalls[ret.proc] = 0

\* a transport failure (no status: 0) or a status outside 200..299
BadStatus(s) == s = 0 \/ s < 200 \/ s > 299

\* C17: in get_verse_of_the_day and get_verse_text a transport failure or a
\* non-2xx status never yields a result: the call ends with the ValueError of
\* a failed request, and for a bad status its message contains the status code.
C17_BadResponseRaises ==
    /\ (ret.op = "votd" /\ BadStatus(ret.arg.status)) =>
          /\ ~ret.ok
          /\ ret.val.text = "VOTD API request failed"
          /\ ret.arg.status # 0 => ret.val.code = ret.arg.status
          /\ pc[ret.proc] = "idle"
    /\ (ret.op \in {"text", "txt_error"} /\ BadStatus(ret.arg.status)) =>
          /\ ~ret.ok
          /\ ret.val.text = "Bible chapter API request failed"
          /\ ret.arg.status # 0 => ret.val.code = ret.arg.status
          /\ pc[ret.proc] = "idle"

\* C17 witness: the envelope endpoint answered 404 with a body that lists
\* entries, and get_verse_of_the_day raised with 404 in its message
C17_Witness ==
    /\ ret.op = "votd"
    /\ ret.arg.status = 404
    /\ ret.arg.body.has /\ ret.arg.body.votd # <<>>
    /\ ~ret.ok
    /\ ret.val.code = 404

\* C18: a get_access_token() call that needs a refresh sends exactly one token
\* request, when it starts; if that request fails, by transport error or with
\* a status other than 200, the call ends there with the ValueError of a
\* failed authentication, having sent no second request and stored nothing.
C18_OneTokenRequestPerCall ==
    [][\A p \in Users :
        /\ (ret'.proc = p /\ ret'.op = "token_post") =>
              /\ pc[p] = "idle" /\ astate[p] = "none"
              /\ pc'[p] = "tok_call" /\ astate'[p] = "posting"
              /\ ~(token # 0 /\ now < expiry - 60)
        /\ (pc[p] = "idle" /\ pc'[p] = "tok_call") =>
              ret'.proc = p /\ ret'.op = "token_post"
        /\ pc[p] = "tok_call" => astate[p] = "posting"
        /\ (ret'.proc = p /\ ret'.op = "token_error") =>
              /\ pc[p] = "tok_call"
              /\ ~ret'.ok
              /\ ret'.arg # 200
              /\ ret'.val.text = IF ret'.arg = 0 THEN "Authentication request failed"
                                 ELSE "Authentication failed"
              /\ pc'[p] = "idle" /\ astate'[p] = "none"
              /\ token' = token /\ expiry' = expiry
      ]_vars

\* C18 witness: the stored token had expired, the refresh was answered 500 and
\* the call has ended with the error
C18_Witness ==
    /\ ret.op = "token_error" /\ ret.arg = 500
    /\ token # 0 /\ now >= expiry - 60
    /\ pc[ret.proc] = "idle" /\ astate[ret.proc] = "none"

\* C19: constructing a limiter with max_calls <= 0 or period <= 0 raises
\* ValueError and yields no limiter; with both positive it yields a limiter
\* with these parameters, an empty ledger and a free lock, and a
\* get_remaining_calls() that follows the construction returns max_calls.
C19_ConstructionValidated ==
    [][/\ ret'.op = "init" =>
            IF ret'.arg.max_calls <= 0 \/ ret'.arg.period <= 0
            THEN /\ ~ret'.ok
                 /\ ret'.val \in {"max_calls must be positive", "period must be positive"}
                 /\ kind' = "none"
            ELSE /\ ret'.ok
                 /\ kind' = ret'.arg.kind
                 /\ max_calls' = ret'.arg.max_calls
                 /\ period' = ret'.arg.period
                 /\ calls' = <<>>
                 /\ lock_owner' = NoProc /\ lock_waiters' = <<>>
       /\ kind = "none" => (ret'.op \in {"init", "none"} /\ calls' = <<>>)
       /\ (ret.op = "init" /\ ret.ok /\ ret'.op = "remaining") => ret'.val = max_calls
      ]_vars

\* C19 witness: RateLimiter(max_calls, 0) with max_calls positive has raised
\* "period must be positive" and there is no limiter
C19_Witness ==
    /\ ret.op = "init" /\ ~ret.ok
    /\ ret.arg.max_calls > 0 /\ ret.arg.period = 0
    /\ ret.val = "period must be positive"
    /\ kind = "none"

\* C20: constructing the authenticator, or the client that would own it, with
\* the username or the password missing or empty raises the ValueError that
\* names the credentials and builds no authenticator; an authenticator that
\* exists has both set, and every token request carries both.
C20_NoCredentialsNoAuthenticator ==
    LET unset(x) == x \in {"missing", ""} IN
    /\ (ret.op \in {"auth_init", "client_init"}
         /\ (unset(ret.arg.username) \/ unset(ret.arg.password))) =>
            /\ ~ret.ok
            /\ ret.val = "credentials must be set"
            /\ ret.op = "auth_init" => ~credentials.built
    /\ (credentials.built \/ ret.op = "token_post" \/ \E p \in Procs : astate[p] = "posting") =>
            /\ credentials.built
            /\ ~unset(credentials.username) /\ ~unset(credentials.password)
    /\ ret.op = "token_post" =>
            ~unset(ret.arg.username) /\ ~unset(ret.arg.password)

\* C20 witness: YouVersionClient() has raised the ValueError of its
\* authenticator, the username being set and the password empty
C20_Witness ==
    /\ ret.op = "client_init" /\ ~ret.ok
    /\ ret.arg.username = "set" /\ ret.arg.password = ""
    /\ ret.val = "credentials must be set"
    /\ ~credentials.built

PositiveNumerals == {"2", "3", " 2 ", "1.5"}

\* C22: get_limiter_from_env(prefix, defaults) returns a blocking limiter whose
\* max_calls and period are the values of {prefix}_MAX_CALLS and
\* {prefix}_PERIOD when set and the given defaults otherwise, and fails with
\* ValueError when a set value is not numeric or not positive.
C22_LimiterFromEnv ==
    ret.op = "from_env" =>
        LET a == ret.arg
            bad(s) == s # "missing" /\ s \notin PositiveNumerals
        IN  /\ (bad(a.max_calls) \/ bad(a.period)) => ~ret.ok /\ ret.val.error # ""
            /\ ret.ok =>
                  /\ kind = "blocking" /\ ~ret.val.nan
                  /\ max_calls = (IF a.max_calls = "missing" THEN a.default_max_calls
                                  ELSE IntOf(a.max_calls).n)
                  /\ period = (IF a.period = "missing" THEN a.default_period
                               ELSE IntOf(a.period).n)


\* C22 (the input it fails on): {prefix}_PERIOD is set to "nan" and a limiter
\* is returned
C22_Witness ==
    /\ ret.op = "from_env" /\ ret.ok
    /\ ret.arg.period = "nan" /\ ret.val.nan
    /\ kind = "blocking"

\* C23: token refresh is guarded by mutual exclusion: when several
\* get_verse_text calls run concurrently and all observe an absent or expired
\* token, exactly one token request is sent and the others reuse its token;
\* at no time are two token requests in flight.
C23_OneRefreshInFlight ==
    \A p, q \in Procs : astate[p] = "posting" /\ astate[q] = "posting" => p = q

\* C23 (the input it fails on): the two member fetches of one get_verse_texts
\* call have each sent a token request and neither has been answered
C23_Witness ==
    /\ pc[<<1, 0>>] = "gather"
    /\ astate[<<1, 1>>] = "posting" /\ astate[<<1, 2>>] = "posting"
    /\ ret.op = "token_post"

\* task p sends a GET in this step / sends the token POST in this step
SendsGet(p) == pc'[p] \in {"env_get", "txt_get"} /\ pc[p] # pc'[p]
SendsPost(p) == astate'[p] = "posting" /\ astate[p] # "posting"

\* C24: every outbound network request of the content subsystem, the token
\* POST, the envelope GET and each chapter GET, is sent only after an acquire()
\* on the client's shared limiter admitted it, with one acquire per request:
\* the step that sends it is the return of the sender's acquire().
C24_EveryRequestAdmitted ==
    [][\A p \in Procs :
         SendsGet(p) \/ SendsPost(p) =>
             ret'.op = "acquire" /\ ret'.proc = p /\ ret'.ok]_vars

\* C24 (the input it fails on): a token POST is in flight and the limiter has
\* admitted the envelope GET only
C24_Witness ==
    /\ ret.op = "token_post"
    /\ astate[ret.proc] = "posting"
    /\ Len(calls) = 1 /\ now = 0
    /\ pc[<<1, 0>>] = "gather"

\* C25 (as stated): get_remaining_calls() is a non-mutating read: calling it at
\* any time leaves the limiter's call ledger exactly as it was before the call.
C25_RemainingLeavesLedger ==
    [][ret'.op = "remaining" => calls' = calls]_vars

\* C25 (amended): get_remaining_calls() adds nothing to the ledger and drops
\* from it exactly the timestamps that are a full period old at the clock
\* value the call read at its start; the timestamps of the current window
\* stay, in their order, and max_calls, period and the variant are untouched.
C25_RemainingDropsOnlyExpired ==
    [][\A p \in Users : (ret'.proc = p /\ ret'.op = "remaining") =>
          LET n == IF lstate[p] = "none" THEN now ELSE lnow[p] IN
          /\ calls' = SelectSeq(calls, LAMBDA t : t > n - period)
          /\ ret'.arg = Len(calls) - Len(calls')
          /\ <<kind, max_calls, period>>' = <<kind, max_calls, period>>]_vars

\* C25 witness: a get_remaining_calls() has dropped expired timestamps from the
\* ledger and left newer ones in it
C25_Witness ==
    /\ ret.op = "remaining"
    /\ ret.arg > 0
    /\ calls # <<>>

\* C26: cache accesses of concurrent get_formatted_verse_of_the_day calls on one
\* client are mutually exclusive: the cache changes only in a step that is one
\* whole lookup of one caller (with its expiry-delete or its move-to-end) or
\* one whole evict-then-insert of one caller; no step shows a part of either.
C26_CacheAccessesAtomic ==
    [][cache' # cache =>
         \E c \in Callers :
            \/ \E d \in 1..NumDays :
                  /\ LookupStep(c, d)
                  /\ CacheIndex(cache, d) # 0
                  /\ LET i == CacheIndex(cache, d) IN
                     \/ ret'.op = "fvotd_miss" /\ cache' = RemoveAt(cache, i)
                     \/ ret'.op = "fvotd_hit" /\ cache' = MoveToEnd(cache, i)
            \/ /\ ReturnStep(c)
               /\ cache' = CacheStore(cache, reqday[c], now, ret'.val)]_vars

\* C26 witness: one caller has stored its result while the other caller, whose
\* lookup missed before that store, stands right before its own store
C26_Witness ==
    /\ ret.op = "fvotd" /\ ret.ok
    /\ \E c \in Callers : c # ret.proc /\ pc[c] = "extract"
    /\ cache # <<>>

\* caller c fails in this step: get_formatted_verse_of_the_day raises
FailStep(c) == pc'[c] = "idle" /\ ret'.proc = c /\ ret'.op = "fvotd" /\ ~ret'.ok

\* C27: every get_formatted_verse_of_the_day call follows the state machine:
\* the cache check comes first (a hit ends the call, a miss starts the envelope
\* fetch); the envelope fetch precedes any chapter fetch; the sequential
\* chapter fetch starts only when the concurrent fetch has failed; extraction
\* starts only when a chapter fetch has succeeded; the cache insert happens
\* only after extraction succeeded, in the step in which the call returns.
C27_FollowsStateMachine ==
    [][\A c \in Callers :
        /\ (ret'.proc = c /\ ret'.op = "fvotd_hit") => pc[c] = "idle" /\ pc' = pc
        /\ (\E q \in Members : Owner(q) = c /\ pc[q] # pc'[q] /\ pc[q] = "idle") =>
              pc[c] = "env_get" /\ pc'[c] = "gather"
        /\ (cache' # cache /\ ret'.proc = c /\ ret'.op = "fvotd") =>
              pc[c] = "extract" /\ ret'.ok /\ reqday[c] \in CacheDays(cache')
        /\ pc'[c] # pc[c] =>
            \/ /\ pc[c] = "idle" /\ pc'[c] = "env_acquire"
               /\ ret'.proc = c /\ ret'.op = "fvotd_miss"
            \/ /\ pc[c] = "env_acquire" /\ pc'[c] = "env_get"
               /\ ret'.proc = c /\ ret'.op = "acquire" /\ ret'.ok
            \/ /\ pc[c] = "env_get" /\ pc'[c] = "gather"
               /\ \A q \in Members : Owner(q) = c => pc[q] = "idle"
            \/ pc[c] = "env_get" /\ FailStep(c)
            \/ /\ pc[c] = "gather" /\ pc'[c] = "extract"
               /\ ret'.proc = c /\ ret'.op = "texts" /\ ret'.ok
               /\ chapter_data'[c] # NoData
            \/ /\ pc[c] = "gather" /\ pc'[c] = "txt_auth"
               /\ ret'.proc = c /\ ret'.op = "texts" /\ ~ret'.ok
            \/ /\ pc[c] = "txt_auth" /\ pc'[c] = "txt_acquire"
               /\ ret'.proc = c /\ ret'.op \in {"token_cached", "token_fresh"}
            \/ pc[c] = "txt_auth" /\ FailStep(c)
            \/ /\ pc[c] = "txt_acquire" /\ pc'[c] = "txt_get"
               /\ ret'.proc = c /\ ret'.op = "acquire" /\ ret'.ok
            \/ /\ pc[c] = "txt_get" /\ pc'[c] = "extract"
               /\ fbcalls[c] > 0
               /\ chapter_data'[c] # NoData
            \/ pc[c] = "txt_get" /\ FailStep(c)
            \/ /\ pc[c] = "extract" /\ pc'[c] = "idle"
               /\ ret'.proc = c /\ ret'.op = "fvotd"
               /\ ret'.ok => reqday[c] \in CacheDays(cache')]_vars

\* C27 witness: a call is on the longer path through the machine: its lookup
\* missed, its concurrent fetch failed, its sequential fetch succeeded, and
\* extraction and the cache insert are what is left
C27_Witness ==
    \E c \in Callers :
        /\ pc[c] = "extract"
        /\ fbcalls[c] > 0
        /\ chapter_data[c] # NoData
        /\ reqday[c] \notin CacheDays(cache)

\* the errors a get_formatted_verse_of_the_day call can end with from where
\* it stands: the envelope fetch, the sequential fetch (its token request or
\* its chapter request), the extraction
ErrorsAt(v) ==
    IF v = "env_get"
    THEN {"VOTD API request failed", "No verse of the day found for day",
          "No USFM reference found in VOTD data"}
    ELSE IF v = "txt_auth" THEN {"Authentication failed", "Authentication request failed"}
    ELSE IF v = "txt_get" THEN {"Bible chapter API request failed"}
    ELSE IF v = "extract" THEN {"Verse not found in chapter data"}
    ELSE {}

\* C28: if the envelope fetch fails, the envelope carries no reference, the
\* sequential fallback fetch fails, or verse extraction fails,
\* get_formatted_verse_of_the_day ends with that error, sends no further
\* request and retries nothing (no task of the call is left running, and the
\* sequential fetch is started at most once per call), and inserts nothing
\* into the cache.
C28_FailuresEndTheCall ==
    [][\A c \in Callers :
        /\ FailStep(c) =>
              /\ ret'.val.text \in ErrorsAt(pc[c])
              /\ cache' = cache
              /\ ret'.arg = reqday[c]
              /\ \A q \in Procs : (q = c \/ (IsMember(q) /\ Owner(q) = c)) =>
                    pc'[q] = "idle" /\ astate'[q] = "none" /\ lstate'[q] = "none"
        /\ (pc[c] = "extract" /\ pc'[c] # pc[c]
              /\ ~ExtractVerseText(chapter_data[c], ExtractVerseNumber(votd[c].usfm[1])).found)
              => FailStep(c)
        /\ (pc[c] \in {"txt_auth", "txt_get"} /\ ret'.proc = c /\ ~ret'.ok) => FailStep(c)
        /\ fbcalls'[c] <= 1]_vars

\* C28 witness: a call whose concurrent fetch had failed has ended with the
\* error of its sequential fetch, and its day is not in the cache
C28_Witness ==
    /\ ret.op = "fvotd" /\ ~ret.ok
    /\ ret.val.text = "Bible chapter API request failed"
    /\ ret.arg \notin CacheDays(cache)
    /\ pc[ret.proc] = "idle"

\* the member tasks of the get_verse_texts call of caller c for n references
MembersOf(c, n) == {Member(c, i) : i \in 1..n}

\* C29: get_verse_texts starts a fetch for every reference and completes,
\* with a list or with an error, only after every member fetch has settled;
\* the failure of one member neither cancels nor skips the fetches of the
\* others.
C29_GatherWaitsForAll ==
    [][\A c \in Callers :
        /\ (pc[c] = "env_get" /\ pc'[c] = "gather") =>
              /\ votd'[c].usfm # <<>>
              /\ \A i \in DOMAIN votd'[c].usfm :
                    /\ pc'[Member(c, i)] = "txt_auth"
                    /\ ref'[Member(c, i)] = votd'[c].usfm[i]
        /\ (ret'.proc = c /\ ret'.op = "texts") =>
              /\ pc[c] = "gather"
              /\ \A q \in MembersOf(c, Len(votd[c].usfm)) : pc[q] = "settled"
              /\ Len(ret'.arg) = Len(votd[c].usfm)
        /\ pc[c] = "gather" =>
              \A q \in MembersOf(c, Len(votd[c].usfm)) :
                 /\ (pc'[q] = "settled" /\ pc[q] # "settled") =>
                       /\ pc[q] \in {"txt_auth", "txt_get"}
                       /\ ret'.proc \in {q, NoProc}
                       /\ \A o \in MembersOf(c, Len(votd[c].usfm)) \ {q} :
                             pc'[o] = pc[o] /\ ref'[o] = ref[o] /\ mres'[o] = mres[o]
                 /\ pc[q] \notin {"settled", "idle"} => pc'[q] # "idle"]_vars

\* C29 witness: get_verse_texts has raised after both of its member fetches had
\* settled, the first of them with an error and the second with a result
C29_Witness ==
    /\ ret.op = "texts" /\ ~ret.ok
    /\ ret.arg = <<"err", "ok">>

\* C30: a successful refresh replaces the stored token by the server's
\* access_token and sets the expiry to the time of the refresh plus
\* expires_in, using 3600 s when the server omits expires_in; the value
\* returned by get_access_token is the newly stored token.
C30_RefreshStoresToken ==
    ret.op = "token_fresh" =>
        /\ ret.ok
        /\ token = ret.arg.access_token
        /\ ret.val = ret.arg.access_token
        /\ expiry = now + (IF ret.arg.expires_in = -1 THEN 3600 ELSE ret.arg.expires_in)

\* C30 witness: a refresh at a later time has replaced token 1, stored by an
\* earlier refresh, by token 2, whose response gave an expires_in
C30_Witness ==
    /\ ret.op = "token_fresh"
    /\ user_id = 71 /\ token = 2
    /\ now > 0
    /\ ret.arg.expires_in = 120
    /\ expiry = now + 120

\* task p is inside get_verse_of_the_day and takes this step, or enters it
VotdStep(p) ==
    /\ IsUser(p)
    /\ \/ pc[p] \in {"env_acquire", "env_get"} /\ (pc'[p] # pc[p] \/ lstate'[p] # lstate[p])
       \/ pc[p] = "idle" /\ pc'[p] = "env_acquire"

\* C31: get_verse_of_the_day is unauthenticated: no step of it requests,
\* refreshes or attaches a bearer token, each leaves the authenticator's
\* token, expiry and subject id unchanged, and its outcome is determined by the
\* response of the envelope endpoint alone, whatever the authenticator holds.
C31_VotdUnauthenticated ==
    [][\A p \in Users :
        /\ VotdStep(p) =>
              /\ authVars' = authVars
              /\ hdr'[p] = 0 /\ hdr[p] = 0
              /\ ret'.op \notin {"token_post", "token_cached", "token_fresh", "token_error"}
        /\ (ret'.proc = p /\ ret'.op = "votd") =>
              /\ VotdStep(p)
              /\ ret'.val = (IF ret'.arg.status = 0 THEN VotdTransportOutcome
                             ELSE VotdOutcome(ret'.arg.status, ret'.arg.body, reqday[p])).val]_vars

\* C31 witness: get_verse_of_the_day has returned an entry while the
\* authenticator held no token and a token request of another task was still
\* unanswered
C31_Witness ==
    /\ ret.op = "votd" /\ ret.ok
    /\ token = 0
    /\ \E q \in Users : q # ret.proc /\ astate[q] = "posting"

\* a step of task p inside a method of the first limiter / of the second one
FirstStep(p) ==
    \/ /\ pc'[p] # pc[p]
       /\ {pc[p], pc'[p]} \cap {"lim_acquire", "lim_reset", "lim_remaining"} # {}
    \/ lstate'[p] # lstate[p]
    \/ ret'.proc = p /\ ret'.op \in {"acquire", "reset", "remaining"}
SecondStep(p) ==
    \/ /\ pc'[p] # pc[p]
       /\ {pc[p], pc'[p]} \cap (SecondOps \cup {"second_sleep"}) # {}
    \/ ret'.proc = p /\ ret'.op \in SecondOps

\* C32: two limiter instances are independent.  A step of acquire(), reset()
\* or get_remaining_calls() on one instance leaves the other instance's
\* ledger, lock and waiters as they were; and a method called on the second
\* instance while its own lock is free runs at once, whatever tasks sleep or
\* wait inside the first instance: it returns in that step, or (acquire
\* only) sleeps because the second instance's own window is full, until that
\* window's oldest timestamp is one period old.
C32_InstancesIndependent ==
    [][\A p \in Users :
        /\ FirstStep(p) => second' = second
        /\ SecondStep(p) => UNCHANGED <<limCfg, calls, lock_owner, lock_waiters, lstate>>
        /\ (pc[p] = "idle" /\ SecondStep(p) /\ second.lock_owner = NoProc) =>
              LET cs == SecondPrune(second.calls, now) IN
              \/ ret'.proc = p /\ ret'.op \in SecondOps /\ pc'[p] = "idle"
              \/ /\ pc'[p] = "second_sleep"
                 /\ Len(cs) >= second.max_calls
                 /\ wake'[p] = Head(cs) + second.period]_vars

\* C32 witness: a call of acquire() on the second instance has just returned
\* without waiting while a task sleeps inside acquire() of the first
\* instance, holding its lock, and another one waits for that lock
C32_Witness ==
    /\ ret.op = "second_acquire" /\ ret.ok /\ ret.val = 0
    /\ \E q \in Users : lstate[q] = "sleeping" /\ lock_owner = q /\ now < wake[q]
    /\ lock_waiters # <<>>
    /\ second.calls = <<now>>

\* C33: identity extraction is best-effort.  A refresh ends in one of two
\* ways only.  When the token endpoint answered 200, the call returns the
\* access token of the response, and that token and now + expires_in (3600
\* without the field) are stored, whatever the token's shape: three segments
\* or not, a payload that decodes or not, with an identity or without.  When
\* the call raises, the HTTP exchange failed (a status other than 200, or a
\* transport error), the error is the one for that failure, and the stored
\* token, expiry and subject id are untouched.
C33_ExtractionIsBestEffort ==
    [][\A p \in Users :
        (astate[p] = "posting" /\ astate'[p] = "none") =>
            \/ /\ ret'.op = "token_fresh"
               /\ ret' = Ev(p, "token_fresh", TRUE, ret'.arg.access_token, ret'.arg)
               /\ ret'.arg.access_token \in Tokens
               /\ token' = ret'.arg.access_token
               /\ expiry' = now + (IF ret'.arg.expires_in = -1 THEN DEFAULT_EXPIRES_IN
                                   ELSE ret'.arg.expires_in)
               /\ pc'[p] = "idle"
            \/ /\ ret'.op = "token_error"
               /\ ret' = Ev(p, "token_error", FALSE, AuthError(ret'.arg), ret'.arg)
               /\ ret'.arg # 200
               /\ UNCHANGED <<token, expiry, user_id>>]_vars

\* C33 witness: refreshes have returned tokens of every shape that defeats the
\* extraction; the last one, with an undecodable payload, is stored with its
\* expiry, and the subject id of an earlier token is still there
C33_Witness ==
    /\ ret.op = "token_fresh" /\ ret.ok
    /\ TokenShape(ret.val) = "undecodable"
    /\ token = ret.val /\ expiry = now + 120
    /\ user_id = 71

\* C34: whenever a chapter request is sent (acquire() has returned inside
\* get_verse_text), the bearer token in its headers is the stored token and
\* that token has not expired.
C34_TokenUnexpiredWhenSent ==
    [][\A p \in Procs :
        (pc[p] # "txt_get" /\ pc'[p] = "txt_get") =>
            /\ hdr[p] = token
            /\ now < expiry]_vars

\* C34 witness: a chapter request has just been sent by a task that slept in
\* acquire() after its headers were built, and the token in those headers
\* has expired
C34_Witness ==
    /\ ret.op = "acquire" /\ ret.ok /\ ret.val = 1
    /\ pc[ret.proc] = "txt_get"
    /\ hdr[ret.proc] = token
    /\ now >= expiry

\* C35: every cache entry holds, under key d, a record whose day field is d.
C35_EntryDayIsKey ==
    \A i \in DOMAIN cache : cache[i].data.day = cache[i].day

\* C35 witness: a call for day 3 has just returned and stored, under key 3,
\* the record of the envelope's first entry, which is for day 2
C35_Witness ==
    /\ ret.op = "fvotd" /\ ret.ok /\ ret.arg = 3
    /\ ret.val.day = 2
    /\ \E i \in DOMAIN cache : cache[i].day = 3 /\ cache[i].data = ret.val

\* C36: for one day at most one fetch pipeline runs at a time: no two
\* callers are past the cache check of get_formatted_verse_of_the_day for
\* the same day.
C36_OnePipelinePerDay ==
    \A c1, c2 \in Callers :
        (c1 # c2 /\ pc[c1] # "idle" /\ pc[c2] # "idle") => reqday[c1] # reqday[c2]

\* C36 witness: two calls for the same uncached day overlap, and the envelope
\* request of each is in flight
C36_Witness ==
    /\ pc[<<1, 0>>] = "env_get" /\ pc[<<2, 0>>] = "env_get"
    /\ reqday[<<1, 0>>] = 1 /\ reqday[<<2, 0>>] = 1
    /\ cache = <<>>
    /\ Len(calls) = 2

\* C37: a store for a day that already has a cache entry replaces that
\* entry and removes no other day's entry.
C37_OverwriteEvictsNothing ==
    [][\A c \in Callers :
        (ret'.proc = c /\ ret'.op = "fvotd" /\ ret'.ok /\ reqday[c] \in CacheDays(cache)) =>
            CacheDays(cache') = CacheDays(cache)]_vars

\* C37 witness: the cache held days 2 and 1, the oldest first, when a second
\* call for day 1 stored its result: day 2's entry was evicted and the cache
\* holds day 1 alone
C37_Witness ==
    /\ ret.op = "fvotd" /\ ret.ok /\ ret.arg = 1
    /\ overwrote
    /\ evicted = <<2>>
    /\ CacheDays(cache) = {1}

\* C38: reset() and get_remaining_calls() are atomic with respect to a
\* blocking acquire().  They take effect only while no other task is inside
\* the body of acquire(): none sleeps there and none holds the lock.  While a
\* task sleeps in acquire() the ledger changes only when that task, its wait
\* over, prunes and records its own timestamp.  The lock's queue is first
\* in, first out, so a reset() issued while a caller is suspended in
\* acquire() runs after that caller has recorded.
C38_ResetWaitsForAcquire ==
    [][/\ \A r \in Users :
            (ret'.proc = r /\ ret'.op \in {"reset", "remaining"}) =>
                /\ lock_owner \in {NoProc, r}
                /\ \A q \in Users \ {r} : lstate[q] \notin {"sleeping", "granted"}
                /\ ret'.op = "reset" => calls' = <<>>
       /\ \A q \in Users :
            (lstate[q] = "sleeping" /\ calls' # calls) =>
                /\ ret' = Ev(q, "acquire", TRUE, 1, 0)
                /\ now >= wake[q]
                /\ calls' = Append(Prune(calls, now), now)
       /\ \/ lock_waiters' = lock_waiters
          \/ /\ lock_owner # NoProc /\ lock_owner' = lock_owner
             /\ \E x \in Users : lock_waiters' = Append(lock_waiters, x)
          \/ /\ lock_waiters # <<>>
             /\ lock_waiters' = Tail(lock_waiters)
             /\ lock_owner' = Head(lock_waiters)]_vars

\* C38 witness: a caller that slept in acquire() has just recorded its
\* timestamp, and only now the lock passes to a reset() that was issued
\* during the sleep; the ledger still holds the caller's timestamp
C38_Witness ==
    /\ ret.op = "acquire" /\ ret.ok /\ ret.val = 1
    /\ calls # <<>> /\ Last(calls) = now
    /\ \E r \in Users : pc[r] = "lim_reset" /\ lstate[r] = "granted" /\ lock_owner = r

\* C39: the stored subject id is absent or the identity in the payload of
\* the stored token.
C39_SubjectOfStoredToken ==
    user_id = 0 \/ (TokenShape(token) = "identity" /\ user_id = ExtractUserInfo(token, 0))

\* C39 witness: a refresh has just replaced token 1, whose payload names
\* user 71, by a token that is not in three segments; the stored subject id
\* is still 71
C39_Witness ==
    /\ ret.op = "token_fresh" /\ ret.ok
    /\ token = 2 /\ TokenShape(token) = "segments"
    /\ user_id = 71

\* C40: no two stored announcements have the same id.
C40_AnnouncementIdsUnique ==
    \A i, j \in DOMAIN announcements :
        i # j => announcements[i].id # announcements[j].id

\* C40 witness: after add, add, remove 1, add in one guild the announcement
\* just added was given id 2, which the announcement before it has too; a
\* command for id 2 in that guild finds the older one only
C40_Witness ==
    /\ ret.op = "announcement_add" /\ ret.ok /\ ret.val = 2
    /\ Len(announcements) = 2
    /\ announcements[1].id = 2 /\ announcements[2].id = 2
    /\ announcements[1].guild_id = announcements[2].guild_id
    /\ FindAnnouncement(announcements[2].guild_id, 2) = 1
====
